---- MODULE Spec2Model ----
(***************************************************************************)
(* A model of the forqan_obs Obsidian plugin: the vault generator          *)
(* (VaultGenerator.ts), the collection builder (CreateCollectionModal.ts)  *)
(* and the Mushaf page layout (MushafRenderer.ts).                         *)
(*                                                                         *)
(* JavaScript runs one synchronous segment at a time and yields at every   *)
(* await, so an action is the code between two awaits.  A request to the   *)
(* remote API is issued by the action that ends in the await and settled   *)
(* (resolved or rejected) by the next action of that caller.  The host     *)
(* vault is a map from path to content; vault.create and                   *)
(* vault.createFolder throw when the path exists and never overwrite.      *)
(***************************************************************************)
EXTENDS Integers, Sequences, FiniteSets, TLC

VARIABLES
    vault,        \* host document store: path -> content
    apiChapters,  \* what GET /chapters answers when it succeeds
    apiJuzs,      \* what GET /juzs answers (the juz numbers)
    settings,     \* the plugin settings
    gpc,          \* per run: position in generateFullVault
    gopts,        \* per run: the VaultGeneratorOptions of the call
    gchapters,    \* per run: local `chapters` / `allChapters`
    gjuzs,        \* per run: local `juzs`
    gi,           \* per run: index of the chapter loop
    gpage,        \* per run: `page` of the page loop
    notices,      \* per run: the Notices shown (the sticky one excluded)
    fetchLog,     \* per run: requests issued, in order
    createCalls,  \* per run: vault.create and vault.createFolder calls,
                  \* each <<path, whether the path existed>>
    failedAt,     \* per run: what made the run throw, or NoFail
    sequential,   \* the second run started after the first had ended
    onceVault,    \* the vault when that second run started
    collectionName, \* CreateCollectionModal: this.collectionName, as characters
    ranges,       \* CreateCollectionModal: this.ranges
    cpc,          \* position in createCollection, or "open" / "closed"
    crange,       \* index of the range the loop of createCollection is at
    cbody,        \* local `body`, as a sequence of blocks
    callPages,    \* local `allPages`
    cnotices,     \* the Notices of the last createCollection
    cfetchLog,    \* the requests of the last createCollection, in order
    ccreateCalls, \* vault.create / createFolder calls of the last createCollection
    editsLeft,    \* the edits the user still makes to the form
    iterated,     \* the array `for (const range of this.ranges)` walks, and
                  \* whether this.ranges is still that array
    \* buildJuzPageMap
    jpc,          \* where the call is: "idle", "loop", "returned"
    jjuzs,        \* parameter `juzs`, as juz numbers
    jpage,        \* loop variable `page`
    pageToJuz,    \* local `pageToJuz`
    \* fetchAndRenderPage
    mpc,          \* where the call is
    mverses,      \* local `verses`
    lineMap,      \* local `lineMap`
    mchapters,    \* local `chapters`
    surahStartLines, \* local `surahStartLines`
    container,    \* the children of the container element, in order
    \* stripHtml
    spc,          \* where the call is: "idle", "called", "returned"
    shtml,        \* parameter `html`, as characters
    sresult,      \* the string returned, as characters
    \* getCachedChapters
    chaptersCache, \* module variable `chaptersCache`
    kpc,          \* per caller: where its getCachedChapters is
    kresult,      \* per caller: what its getCachedChapters returned
    cacheFetches, \* getChapters fetches of getCachedChapters that succeeded
                  \* since the last clearChaptersCache
    kcalls,       \* calls of getCachedChapters and clearChaptersCache so far
    klang,        \* per caller: parameter `language` of its getCachedChapters
    \* MushafView
    currentPage,  \* this.currentPage
    pageInput,    \* value of the .mushaf-page-input element
    wrapper,      \* children of the .mushaf-page-wrapper element, in order
    lpc,          \* per loadPage call: where it is
    lpage,        \* per loadPage call: parameter `page`
    ltrace,       \* per loadPage call: the functions its fetchAndRenderPage
                  \* has invoked on the data, in order
    vlog,         \* the starts, arrivals of verses and ends of the calls, in order
    \* QuranReaderView
    readerChapter, \* this.currentChapter
    chapterInfo,  \* this.chapterInfo: <<>> for null, else <<chapter>>
    rverses,      \* this.verses
    rcontent,     \* children of the .quran-content element, in order
    rpc,          \* per loadChapter call: where it is
    rid,          \* per loadChapter call: parameter `chapterId`
    rreq,         \* per loadChapter call: the state of its two requests
    rcount,       \* loadChapter calls so far
    \* quranApi
    apc,          \* "idle", "pending" (requestUrl awaited) or "settled"
    aop,          \* the operation called
    aresponse,    \* what requestUrl was answered with
    aresult,      \* how the promise of the operation settled
    asent,        \* requests sent so far
    \* the quran-mushaf code block processor
    bpc,          \* "idle" or "done"
    bsource,      \* the lines of the block
    bfront,       \* the `page` of the front-matter of the note
    bwrapper,     \* children of the .mushaf-embed-wrapper element
    bfetch,       \* the pages fetchAndRenderPage was started for
    \* the controls of MushafView
    navPage,      \* this.currentPage, as a JavaScript number
    navInput,     \* the value the page input shows
    navFetch,     \* the pages fetchAndRenderPage was called with, in order
    navLeft,      \* the events the user still sends to the controls
    \* SearchView
    debounceTimer, \* this.debounceTimer: 0 for null, or the handle of a timer
    timers,       \* the timers set and neither fired nor cleared
    now,          \* the clock, in milliseconds
    inputs,       \* the input events so far: value and time
    started,      \* the calls of performSearch so far
    closed        \* onClose has run

gvars == <<vault, apiChapters, apiJuzs, settings, gpc, gopts, gchapters, gjuzs,
           gi, gpage, notices, fetchLog, createCalls, failedAt, sequential,
           onceVault>>

cvars == <<collectionName, ranges, cpc, crange, cbody, callPages, cnotices,
           cfetchLog, ccreateCalls, editsLeft, iterated>>

jvars == <<jpc, jjuzs, jpage, pageToJuz>>
mvars == <<mpc, mverses, lineMap, mchapters, surahStartLines, container>>
svars == <<spc, shtml, sresult>>
kvars == <<chaptersCache, kpc, kresult, cacheFetches, kcalls, klang>>
vvars == <<currentPage, pageInput, wrapper, lpc, lpage, ltrace, vlog>>
rvars == <<readerChapter, chapterInfo, rverses, rcontent, rpc, rid, rreq, rcount>>
avars == <<apc, aop, aresponse, aresult, asent>>
bvars == <<bpc, bsource, bfront, bwrapper, bfetch>>
nvars == <<navPage, navInput, navFetch, navLeft>>
dvars == <<debounceTimer, timers, now, inputs, started, closed>>
vars == <<gvars, cvars, jvars, mvars, svars, kvars, vvars, rvars, avars, bvars, nvars, dvars>>

\* What the actions of one component leave alone: the other components.
exGen == <<cvars, jvars, mvars, svars, kvars, vvars, rvars, avars, bvars, nvars, dvars>>
exColl == <<gvars, jvars, mvars, svars, kvars, vvars, rvars, avars, bvars, nvars, dvars>>
exVault == <<jvars, mvars, svars, kvars, vvars, rvars, avars, bvars, nvars, dvars>>
exJuz == <<gvars, cvars, mvars, svars, kvars, vvars, rvars, avars, bvars, nvars, dvars>>
exMushaf == <<gvars, cvars, jvars, svars, kvars, vvars, rvars, avars, bvars, nvars, dvars>>
exStrip == <<gvars, cvars, jvars, mvars, kvars, vvars, rvars, avars, bvars, nvars, dvars>>
exCache == <<gvars, cvars, jvars, mvars, svars, vvars, rvars, avars, bvars, nvars, dvars>>
\* The view shares the memo with every other caller of getCachedChapters.
exView == <<gvars, cvars, jvars, mvars, svars, kpc, kresult, kcalls, klang, rvars, avars, bvars, nvars, dvars>>
exReader == <<gvars, cvars, jvars, mvars, svars, kvars, vvars, avars, bvars, nvars, dvars>>
exApi == <<gvars, cvars, jvars, mvars, svars, kvars, vvars, rvars, bvars, nvars, dvars>>
exBlock == <<gvars, cvars, jvars, mvars, svars, kvars, vvars, rvars, avars, nvars, dvars>>
exNav == <<gvars, cvars, jvars, mvars, svars, kvars, vvars, rvars, avars, bvars, dvars>>
exSearch == <<gvars, cvars, jvars, mvars, svars, kvars, vvars, rvars, avars, bvars, nvars>>

----------------------------------------------------------------------------
(* Bounds and program constants *)

\* The page loop of the generator model stops here instead of at 604.
GenPages == 3

\* `page <= 604` in buildJuzPageMap and generatePageNotes.
LastPage == 604

\* `/ 30` in buildJuzPageMap.
JuzCount == 30

\* `Math.ceil(page / 20)`, the fallback of generatePageNotes.
FallbackPagesPerJuz == 20

\* `page % 10 === 0`: a progress Notice and a pause every 10 pages.
PauseEvery == 10

\* The edits (name typed, range added, field typed, range removed, preset
\* clicked) the user makes to the form of the modal, at most.
MaxEdits == 3

\* The two invocations of the generate-quran-vault command that are modelled.
Runs == {"r1", "r2"}

NoFail == <<"none">>

----------------------------------------------------------------------------
(* helpers.ts *)

RECURSIVE DigitCount(_)
DigitCount(n) == IF n < 10 THEN 1 ELSE 1 + DigitCount(n \div 10)

RECURSIVE Zeros(_)
Zeros(k) == IF k <= 0 THEN "" ELSE "0" \o Zeros(k - 1)

\* String(n).padStart(width, '0'): never truncates.
padNumber(n, width) == Zeros(width - DigitCount(n)) \o ToString(n)

----------------------------------------------------------------------------
(* The host vault (obsidian's Vault, used through three calls) *)

Exists(v, path) == path \in DOMAIN v

Put(v, path, content) ==
    [p \in DOMAIN v \cup {path} |-> IF p = path THEN content ELSE v[p]]

FolderContent == <<"folder">>
UserContent == <<"user">>

baseFolder == "Quran"
folders == <<"Surahs", "Pages", "Juz", "Collections">>
FolderPath(k) == baseFolder \o "/" \o folders[k]

SurahPath(chapter) ==
    baseFolder \o "/Surahs/" \o padNumber(chapter.id, 3) \o " - "
        \o chapter.name_simple \o ".md"

PagePath(page) == baseFolder \o "/Pages/Page " \o padNumber(page, 3) \o ".md"

IndexPath == baseFolder \o "/_Index.md"

----------------------------------------------------------------------------
(* The remote API (quranApi.ts): the data it serves *)

Chapter(id, name) == [id |-> id, name_simple |-> name]

\* The chapter lists GET /chapters may answer with.
ChapterLists ==
    { <<Chapter(1, "Al-Fatihah"), Chapter(2, "Al-Baqarah")>>,
      <<Chapter(2, "Al-Baqarah")>> }

Verse(c, n) ==
    [chapter_id |-> c, verse_number |-> n,
     verse_key |-> ToString(c) \o ":" \o ToString(n)]

\* The verses of a page as GET /verses/by_page/<page> lists them: page 1
\* holds chapter 1, page 2 the end of chapter 1 and the start of chapter 2,
\* every later page chapter 2.
PageVerses(page) ==
    IF page = 1 THEN <<Verse(1, 1), Verse(1, 2)>>
    ELSE IF page = 2 THEN <<Verse(1, 3), Verse(2, 1)>>
    ELSE <<Verse(2, 2 * page - 4), Verse(2, 2 * page - 3)>>

\* getVersesByPage(page, {translations}): a translation comes with each
\* verse only when one was asked for.
getVersesByPage(page, translations) ==
    [k \in 1..Len(PageVerses(page)) |->
        [verse |-> PageVerses(page)[k],
         translations |->
            IF translations = <<>> THEN <<>>
            ELSE <<"<sup>" \o ToString(translations[1]) \o "</sup>text">>]]

\* The message of the error a rejected request carries, by request.
ErrorMessage(request) ==
    IF request[1] = "page" THEN "Request failed, status 429"
    ELSE "net::ERR_FAILED /" \o request[1]

Range(s) == {s[k] : k \in 1..Len(s)}

\* The answers of GET /juzs that hold the 30 juz numbers: in order, in
\* reverse order, and each juz listed twice.
JuzInputs ==
    { [k \in 1..JuzCount |-> k],
      [k \in 1..JuzCount |-> JuzCount + 1 - k],
      [k \in 1..(2 * JuzCount) |-> (k + 1) \div 2] }

----------------------------------------------------------------------------
(* VaultGenerator.buildJuzPageMap *)

\* Math.round of the non-negative quotient num / den.  No quotient met here
\* lies within 1/30 of a half, so the floating-point evaluation agrees.
Round(num, den) == (2 * num + den) \div (2 * den)

approxStartPage(juz_number) == Round((juz_number - 1) * LastPage, JuzCount) + 1
approxEndPage_Floor(juz_number) == (juz_number * LastPage) \div JuzCount
approxEndPage(juz_number) == Round(juz_number * LastPage, JuzCount)

\* The inner loop for one page: the indices of the juzs whose range holds it.
JuzMatches(juzs, page) ==
    { k \in 1..Len(juzs) :
        page >= approxStartPage(juzs[k]) /\ page <= approxEndPage(juzs[k]) }

Min(S) == CHOOSE x \in S : \A y \in S : x <= y

\* pageToJuz.has(page) and pageToJuz.get(page) of the map that is built: the
\* first match is set and the loop breaks.
JuzMapHas(juzs, page) == JuzMatches(juzs, page) # {}
JuzMapGet(juzs, page) == juzs[Min(JuzMatches(juzs, page))]

\* Math.ceil(a / b) for positive integers.
Ceil(a, b) == (a + b - 1) \div b

\* juzPageMap.get(page) ?? Math.ceil(page / 20)
juzNumber(juzs, page) ==
    IF JuzMapHas(juzs, page) THEN JuzMapGet(juzs, page)
    ELSE Ceil(page, FallbackPagesPerJuz)

----------------------------------------------------------------------------
(* VaultGenerator: the documents *)

\* helpers.stripHtml: the string is assigned to a fresh element's
\* textContent and read back from textContent.
TextNode(data) == [nodeType |-> "#text", data |-> data]
\* `div.textContent = value` on a fresh element: the value becomes the data
\* of one text node, unparsed.
SetTextContent(value) == <<TextNode(value)>>
\* `div.textContent` of an element whose only child is a text node.
GetTextContent(childNodes) == childNodes[1].data
stripHtml(html) == GetTextContent(SetTextContent(html))

buildSurahContent(chapter) == <<"surah", chapter.id, chapter.name_simple>>

RECURSIVE Dedup(_)
\* [...new Set(s)]: first occurrences, in order.
Dedup(s) ==
    IF s = <<>> THEN <<>>
    ELSE LET rest == Dedup(SubSeq(s, 1, Len(s) - 1))
             last == s[Len(s)]
         IN IF last \in Range(rest) THEN rest ELSE Append(rest, last)

\* chapterMap.get(id): the last chapter of the list with that id, or none.
ChapterMapHas(allChapters, id) == \E k \in 1..Len(allChapters) : allChapters[k].id = id
ChapterMapGet(allChapters, id) ==
    allChapters[CHOOSE k \in 1..Len(allChapters) :
        /\ allChapters[k].id = id
        /\ \A j \in (k + 1)..Len(allChapters) : allChapters[j].id # id]

\* The chapters of a page: the distinct positive chapter ids of its verses,
\* first seen first, those the chapter list knows.
PageChapters(allChapters, verses) ==
    LET ids == Dedup(SelectSeq([k \in 1..Len(verses) |-> verses[k].verse.chapter_id],
                               LAMBDA id : id > 0))
        known == SelectSeq(ids, LAMBDA id : ChapterMapHas(allChapters, id))
    IN [k \in 1..Len(known) |-> ChapterMapGet(allChapters, known[k])]

buildPageContent(page, verses, chapters, juz, options) ==
    <<"page", page, juz,
      [k \in 1..Len(chapters) |-> chapters[k].id],
      IF verses = <<>> THEN "" ELSE verses[1].verse.verse_key,
      IF verses = <<>> THEN "" ELSE verses[Len(verses)].verse.verse_key,
      [k \in 1..Len(verses) |->
          <<verses[k].verse.verse_key,
            IF options.includeTranslation /\ verses[k].translations # <<>>
            THEN stripHtml(verses[k].translations[1]) ELSE "">>],
      IF options.includeMushaf THEN options.defaultViewMode ELSE "">>

IndexContent == <<"index">>

\* settings.ts
DEFAULT_SETTINGS ==
    [showTranslation |-> TRUE, defaultTranslation |-> 20, language |-> "en",
     includeMushafInGeneration |-> TRUE, defaultNoteViewMode |-> "verse"]

\* The settings a session may run with: the defaults, or "Show translation"
\* switched off in the settings tab.
SettingsSets ==
    { DEFAULT_SETTINGS, [DEFAULT_SETTINGS EXCEPT !.showTranslation = FALSE] }

\* The options the generate-quran-vault command of main.ts passes.
CommandOptions(st) ==
    [includeTranslation |-> st.showTranslation,
     translationId |-> st.defaultTranslation,
     includeMushaf |-> st.includeMushafInGeneration,
     defaultViewMode |-> st.defaultNoteViewMode]

----------------------------------------------------------------------------
(* VaultGenerator.generateFullVault, one action per synchronous segment *)

\* The vaults a run may find: nothing, or documents and folders left by the
\* user or by an earlier generation.
InitialVaults ==
    LET fs == [p \in {FolderPath(k) : k \in 1..Len(folders)} |-> FolderContent]
        pg == [p \in {PagePath(2)} |-> UserContent]
        ix == [p \in {IndexPath, SurahPath(Chapter(2, "Al-Baqarah"))} |-> UserContent]
    IN { <<>>, fs, fs @@ pg, fs @@ pg @@ ix }

apiVars == <<apiChapters, apiJuzs, settings>>
seqVars == <<sequential, onceVault>>

\* The paths a run created.
created(r) == {c[1] : c \in {d \in createCalls[r] : ~d[2]}}

\* vault.create(path, content) and vault.createFolder(path) of the host:
\* whether the call throws, and the vault it leaves.
CreateThrows(v, path) == Exists(v, path)
AfterCreate_Overwrite(v, path, content) == Put(v, path, content)
AfterCreate(v, path, content) == IF CreateThrows(v, path) THEN v ELSE Put(v, path, content)
Called(r, path) ==
    createCalls' = [createCalls EXCEPT ![r] = @ \cup {<<path, Exists(vault, path)>>}]

\* The Notice of the catch block of generateFullVault.
FailureNotice(msg) == <<"Vault generation failed: ", msg>>
SuccessNotice == <<"Quran vault generated successfully!", "">>
ProgressNotice(page) == <<"Generated " \o ToString(page) \o "/604 pages...", "">>

\* The catch block of generateFullVault: the sticky notice is hidden and one
\* Notice shows the message of what was thrown.
Throw_Resume(r, what, msg) ==
    /\ gpc' = [gpc EXCEPT ![r] = "pageLoop"]
    /\ notices' = [notices EXCEPT ![r] = Append(@, FailureNotice(msg))]
    /\ failedAt' = [failedAt EXCEPT ![r] = <<what, msg>>]
Throw(r, what, msg) ==
    /\ gpc' = [gpc EXCEPT ![r] = "done"]
    /\ notices' = [notices EXCEPT ![r] = Append(@, FailureNotice(msg))]
    /\ failedAt' = [failedAt EXCEPT ![r] = <<what, msg>>]

\* The command callback of main.ts: a new generator, generateFullVault.
\* The two invocations are interchangeable: r1 names the one made first.
GenStart(r) ==
    /\ gpc[r] = "idle"
    /\ r = "r1" \/ gpc["r1"] # "idle"
    /\ gopts' = [gopts EXCEPT ![r] = CommandOptions(settings)]
    /\ gpc' = [gpc EXCEPT ![r] = "createFolders"]
    /\ gi' = [gi EXCEPT ![r] = 1]
    /\ sequential' = (IF r = "r1" THEN sequential ELSE gpc["r1"] = "done")
    /\ onceVault' = (IF r # "r1" /\ gpc["r1"] = "done" THEN vault ELSE onceVault)
    /\ UNCHANGED <<exGen, vault, apiVars, gchapters, gjuzs, gpage, notices, fetchLog,
                   createCalls, failedAt>>

\* createFolders: one turn of its loop; past the last folder,
\* generateSurahNotes issues getChapters.
CreateFolders(r) ==
    /\ gpc[r] = "createFolders"
    /\ IF gi[r] > Len(folders)
       THEN /\ gpc' = [gpc EXCEPT ![r] = "surahFetch"]
            /\ fetchLog' = [fetchLog EXCEPT ![r] = Append(@, <<"chapters">>)]
            /\ UNCHANGED <<vault, createCalls, gi, notices, failedAt>>
       ELSE LET path == FolderPath(gi[r])
            IN IF Exists(vault, path)
               THEN /\ gi' = [gi EXCEPT ![r] = @ + 1]
                    /\ UNCHANGED <<vault, createCalls, gpc, fetchLog, notices, failedAt>>
               ELSE /\ Called(r, path)
                    /\ vault' = AfterCreate(vault, path, FolderContent)
                    /\ IF CreateThrows(vault, path)
                       THEN /\ Throw(r, <<"create", path>>, "Folder already exists.")
                            /\ UNCHANGED <<gi, fetchLog>>
                       ELSE /\ gi' = [gi EXCEPT ![r] = @ + 1]
                            /\ UNCHANGED <<gpc, fetchLog, notices, failedAt>>
    /\ UNCHANGED <<exGen, apiVars, seqVars, gopts, gchapters, gjuzs, gpage>>

\* getChapters of generateSurahNotes resolves.
SurahChaptersResolve(r) ==
    /\ gpc[r] = "surahFetch"
    /\ gchapters' = [gchapters EXCEPT ![r] = apiChapters]
    /\ gi' = [gi EXCEPT ![r] = 1]
    /\ gpc' = [gpc EXCEPT ![r] = "surahLoop"]
    /\ UNCHANGED <<exGen, vault, apiVars, seqVars, gopts, gjuzs, gpage, notices,
                   fetchLog, createCalls, failedAt>>

\* Whether a loop skips the path: getAbstractFileByPath(path) is truthy.
SkipIfExists_Never(v, path) == FALSE
SkipIfExists_Always(v, path) == TRUE
SkipIfExists(v, path) == Exists(v, path)

\* generateSurahNotes: one turn of its loop; past the last chapter,
\* generatePageNotes issues getChapters.
SurahStep(r) ==
    /\ gpc[r] = "surahLoop"
    /\ IF gi[r] > Len(gchapters[r])
       THEN /\ gpc' = [gpc EXCEPT ![r] = "chaptersFetch"]
            /\ fetchLog' = [fetchLog EXCEPT ![r] = Append(@, <<"chapters">>)]
            /\ UNCHANGED <<vault, createCalls, gi, notices, failedAt>>
       ELSE LET chapter == gchapters[r][gi[r]]
                path == SurahPath(chapter)
            IN IF SkipIfExists(vault, path)
               THEN /\ gi' = [gi EXCEPT ![r] = @ + 1]
                    /\ UNCHANGED <<vault, createCalls, gpc, fetchLog, notices, failedAt>>
               ELSE /\ Called(r, path)
                    /\ vault' = AfterCreate(vault, path, buildSurahContent(chapter))
                    /\ IF CreateThrows(vault, path)
                       THEN /\ Throw(r, <<"create", path>>, "File already exists.")
                            /\ UNCHANGED <<gi, fetchLog>>
                       ELSE /\ gi' = [gi EXCEPT ![r] = @ + 1]
                            /\ UNCHANGED <<gpc, fetchLog, notices, failedAt>>
    /\ UNCHANGED <<exGen, apiVars, seqVars, gopts, gchapters, gjuzs, gpage>>

\* getChapters of generatePageNotes resolves; getJuzs is issued.
PageChaptersResolve(r) ==
    /\ gpc[r] = "chaptersFetch"
    /\ gchapters' = [gchapters EXCEPT ![r] = apiChapters]
    /\ gpc' = [gpc EXCEPT ![r] = "juzsFetch"]
    /\ fetchLog' = [fetchLog EXCEPT ![r] = Append(@, <<"juzs">>)]
    /\ UNCHANGED <<exGen, vault, apiVars, seqVars, gopts, gjuzs, gi, gpage, notices,
                   createCalls, failedAt>>

\* JuzsResolve with `let page = 2`.
JuzsResolve_FromTwo(r) ==
    /\ gpc[r] = "juzsFetch"
    /\ gjuzs' = [gjuzs EXCEPT ![r] = apiJuzs]
    /\ gpage' = [gpage EXCEPT ![r] = 2]
    /\ gpc' = [gpc EXCEPT ![r] = "pageLoop"]
    /\ UNCHANGED <<exGen, vault, apiVars, seqVars, gopts, gchapters, gi, notices,
                   fetchLog, createCalls, failedAt>>

\* getJuzs resolves; the page loop starts.
JuzsResolve(r) ==
    /\ gpc[r] = "juzsFetch"
    /\ gjuzs' = [gjuzs EXCEPT ![r] = apiJuzs]
    /\ gpage' = [gpage EXCEPT ![r] = 1]
    /\ gpc' = [gpc EXCEPT ![r] = "pageLoop"]
    /\ UNCHANGED <<exGen, vault, apiVars, seqVars, gopts, gchapters, gi, notices,
                   fetchLog, createCalls, failedAt>>

\* generatePageNotes: the head of one turn of the page loop, up to the
\* await of getVersesByPage; past the last page the loop is left.
PageStep_Refetch(r) ==
    /\ gpc[r] = "pageLoop"
    /\ IF gpage[r] > GenPages
       THEN /\ gpc' = [gpc EXCEPT ![r] = "generateIndex"]
            /\ UNCHANGED <<gpage, fetchLog>>
       ELSE IF SkipIfExists(vault, PagePath(gpage[r]))
       THEN /\ gpage' = [gpage EXCEPT ![r] = @ + 1]
            /\ UNCHANGED <<gpc, fetchLog>>
       ELSE /\ gpc' = [gpc EXCEPT ![r] = "pageFetch"]
            /\ fetchLog' = [fetchLog EXCEPT ![r] =
                    Append(Append(@, <<"chapters">>), <<"page", gpage[r]>>)]
            /\ UNCHANGED gpage
    /\ UNCHANGED <<exGen, vault, apiVars, seqVars, gopts, gchapters, gjuzs, gi, notices,
                   createCalls, failedAt>>
PageStep(r) ==
    /\ gpc[r] = "pageLoop"
    /\ IF gpage[r] > GenPages
       THEN /\ gpc' = [gpc EXCEPT ![r] = "generateIndex"]
            /\ UNCHANGED <<gpage, fetchLog>>
       ELSE IF SkipIfExists(vault, PagePath(gpage[r]))
       THEN /\ gpage' = [gpage EXCEPT ![r] = @ + 1]
            /\ UNCHANGED <<gpc, fetchLog>>
       ELSE /\ gpc' = [gpc EXCEPT ![r] = "pageFetch"]
            /\ fetchLog' = [fetchLog EXCEPT ![r] = Append(@, <<"page", gpage[r]>>)]
            /\ UNCHANGED gpage
    /\ UNCHANGED <<exGen, vault, apiVars, seqVars, gopts, gchapters, gjuzs, gi, notices,
                   createCalls, failedAt>>

\* getVersesByPage resolves: the rest of the turn, the document is built
\* and vault.create is called.
PageResolve(r) ==
    /\ gpc[r] = "pageFetch"
    /\ LET page == gpage[r]
           path == PagePath(page)
           verses == getVersesByPage(page,
                        IF gopts[r].includeTranslation
                        THEN <<gopts[r].translationId>> ELSE <<>>)
           chapters == PageChapters(gchapters[r], verses)
           content == buildPageContent(page, verses, chapters,
                                       juzNumber(gjuzs[r], page), gopts[r])
       IN /\ Called(r, path)
          /\ vault' = AfterCreate(vault, path, content)
          /\ IF CreateThrows(vault, path)
             THEN /\ Throw(r, <<"create", path>>, "File already exists.")
                  /\ UNCHANGED gpage
             ELSE /\ gpage' = [gpage EXCEPT ![r] = @ + 1]
                  /\ gpc' = [gpc EXCEPT ![r] = "pageLoop"]
                  /\ notices' = [notices EXCEPT ![r] =
                        IF page % PauseEvery = 0
                        THEN Append(@, ProgressNotice(page)) ELSE @]
                  /\ UNCHANGED failedAt
    /\ UNCHANGED <<exGen, apiVars, seqVars, gopts, gchapters, gjuzs, gi, fetchLog>>

\* A pending request rejects: the await throws into the catch block.
FetchReject_Skip(r) ==
    /\ gpc[r] \in {"surahFetch", "chaptersFetch", "juzsFetch", "pageFetch"}
    /\ gpc' = [gpc EXCEPT ![r] = "generateIndex"]
    /\ UNCHANGED <<exGen, vault, apiVars, seqVars, gopts, gchapters, gjuzs, gi, gpage,
                   fetchLog, createCalls, notices, failedAt>>
FetchReject(r) ==
    /\ gpc[r] \in {"surahFetch", "chaptersFetch", "juzsFetch", "pageFetch"}
    /\ LET request == fetchLog[r][Len(fetchLog[r])]
       IN Throw(r, <<"fetch", request>>, ErrorMessage(request))
    /\ UNCHANGED <<exGen, vault, apiVars, seqVars, gopts, gchapters, gjuzs, gi, gpage,
                   fetchLog, createCalls>>

\* generateIndex, then the success Notice.
GenerateIndex(r) ==
    /\ gpc[r] = "generateIndex"
    /\ IF SkipIfExists(vault, IndexPath)
       THEN /\ gpc' = [gpc EXCEPT ![r] = "done"]
            /\ notices' = [notices EXCEPT ![r] = Append(@, SuccessNotice)]
            /\ UNCHANGED <<vault, createCalls, failedAt>>
       ELSE /\ Called(r, IndexPath)
            /\ vault' = AfterCreate(vault, IndexPath, IndexContent)
            /\ IF CreateThrows(vault, IndexPath)
               THEN Throw(r, <<"create", IndexPath>>, "File already exists.")
               ELSE /\ gpc' = [gpc EXCEPT ![r] = "done"]
                    /\ notices' = [notices EXCEPT ![r] = Append(@, SuccessNotice)]
                    /\ UNCHANGED failedAt
    /\ UNCHANGED <<exGen, apiVars, seqVars, gopts, gchapters, gjuzs, gi, gpage, fetchLog>>

\* The API serves one of the chapter lists and the 30 juzs.
ApiInit ==
    /\ apiChapters \in ChapterLists
    /\ apiJuzs = [k \in 1..JuzCount |-> k]

\* No invocation of the command was made yet.
GenIdleInit ==
    /\ gpc = [r \in Runs |-> "idle"]
    /\ gopts = [r \in Runs |-> CommandOptions(DEFAULT_SETTINGS)]
    /\ gchapters = [r \in Runs |-> <<>>]
    /\ gjuzs = [r \in Runs |-> <<>>]
    /\ gi = [r \in Runs |-> 1]
    /\ gpage = [r \in Runs |-> 1]
    /\ notices = [r \in Runs |-> <<>>]
    /\ fetchLog = [r \in Runs |-> <<>>]
    /\ createCalls = [r \in Runs |-> {}]
    /\ failedAt = [r \in Runs |-> NoFail]
    /\ sequential = FALSE
    /\ onceVault = <<>>

GenRun(r) ==
    \/ GenStart(r)
    \/ CreateFolders(r)
    \/ SurahChaptersResolve(r)
    \/ SurahStep(r)
    \/ PageChaptersResolve(r)
    \/ JuzsResolve(r)
    \/ PageStep(r)
    \/ PageResolve(r)
    \/ FetchReject(r)
    \/ GenerateIndex(r)

GenNext == \E r \in Runs : GenRun(r)

----------------------------------------------------------------------------
(* The remote API: chapters and their verses, for the collection builder *)

\* verses_count of the chapters the presets and the inputs name.
VersesCount(id) ==
    CASE id = 1 -> 7 [] id = 2 -> 286 [] id = 18 -> 110 [] id = 36 -> 83
      [] id = 67 -> 30 [] id = 105 -> 5 [] id = 106 -> 4 [] id = 107 -> 7
      [] id = 108 -> 3 [] id = 109 -> 6 [] id = 110 -> 3 [] id = 111 -> 5
      [] id = 112 -> 4 [] id = 113 -> 5 [] id = 114 -> 6 [] OTHER -> 0

\* GET /chapters/<id> answers for the ids 1..114 and fails for any other.
KnownChapter(id) == VersesCount(id) > 0

getChapter(id) == Chapter(id, "Surah " \o ToString(id))

\* The page of a verse: the pages of a chapter start at its id and hold ten
\* verses each (stand-in data; no statement below depends on it).
PageOfVerse(id, n) == id + (n - 1) \div 10

\* getVersesByChapter(id, {translations, perPage: 300, fields}).
getVersesByChapter(id) ==
    [n \in 1..VersesCount(id) |->
        [verse_number |-> n, chapter_id |-> id,
         verse_key |-> ToString(id) \o ":" \o ToString(n),
         page_number |-> PageOfVerse(id, n),
         translations |-> <<"tr " \o ToString(id) \o ":" \o ToString(n)>>]]

----------------------------------------------------------------------------
(* CreateCollectionModal *)

NoLabel == ""
VerseRange(surah, startVerse, endVerse, label) ==
    [surah |-> surah, startVerse |-> startVerse, endVerse |-> endVerse,
     label |-> label]

\* PRESETS
PRESETS ==
    << [name |-> <<"A", "y", "a", "t">>,
        ranges |-> <<VerseRange(2, 255, 255, NoLabel)>>],
       [name |-> <<"M", "o", "s", "e", "s", " ", "(", "K", ")">>,
        ranges |-> <<VerseRange(18, 60, 82, "Moses & Khidr")>>],
       [name |-> <<"Y", "a", "s", "i", "n">>,
        ranges |-> <<VerseRange(36, 1, 83, NoLabel)>>],
       [name |-> <<"M", "u", "l", "k">>,
        ranges |-> <<VerseRange(67, 1, 30, NoLabel)>>],
       [name |-> <<"L", "a", "s", "t", " ", "1", "0">>,
        ranges |-> [i \in 1..10 |-> VerseRange(104 + i, 1, 999, NoLabel)]],
       [name |-> <<"F", "r", "i", "d", "a", "y">>,
        ranges |-> <<VerseRange(18, 1, 10, "First 10"),
                     VerseRange(18, 101, 110, "Last 10")>>] >>

\* What the user types: names, and numbers for the fields of a range.
NameInputs == { <<"a", "/", "b">> }
SurahInputs == {114}
StartInputs == {5}
EndInputs == {3, 999}

RECURSIVE Join(_)
Join(cs) == IF cs = <<>> THEN "" ELSE cs[1] \o Join(Tail(cs))

\* The characters /[^a-zA-Z0-9 _-]/ does not match.
SafeChars ==
    {"a", "b", "c", "d", "e", "f", "g", "h", "i", "j", "k", "l", "m", "n", "o",
     "p", "q", "r", "s", "t", "u", "v", "w", "x", "y", "z",
     "A", "B", "C", "D", "E", "F", "G", "H", "I", "J", "K", "L", "M", "N", "O",
     "P", "Q", "R", "S", "T", "U", "V", "W", "X", "Y", "Z",
     "0", "1", "2", "3", "4", "5", "6", "7", "8", "9", " ", "_", "-"}

\* collectionName.replace(/[^a-zA-Z0-9 _-]/g, "_")
safeName(name) ==
    [k \in 1..Len(name) |-> IF name[k] \in SafeChars THEN name[k] ELSE "_"]

CollectionsFolder == "Quran/Collections"
CollectionPath(name) == CollectionsFolder \o "/" \o Join(safeName(name)) \o ".md"

\* `range.label ?? "<surah>:<start>-<end>"`
RangeLabel(range) ==
    IF range.label # NoLabel THEN range.label
    ELSE ToString(range.surah) \o ":" \o ToString(range.startVerse) \o "-"
            \o ToString(range.endVerse)

\* The filter of createCollection: 999 stands for no upper end.
InRange_Exclusive(range, verse_number) ==
    /\ verse_number > range.startVerse
    /\ range.endVerse = 999 \/ verse_number < range.endVerse
InRange(range, verse_number) ==
    /\ verse_number >= range.startVerse
    /\ range.endVerse = 999 \/ verse_number <= range.endVerse

filtered(range, allVerses) ==
    SelectSeq(allVerses, LAMBDA v : InRange(range, v.verse_number))

HeaderBlock(chapter, range) ==
    <<"##", chapter.name_simple, RangeLabel(range), padNumber(range.surah, 3)>>
VerseBlock(verse) ==
    <<"###", verse.verse_key,
      IF verse.translations # <<>> THEN stripHtml(verse.translations[1]) ELSE "",
      "---">>

RECURSIVE SortedSeq(_)
\* [...allPages].sort((a, b) => a - b)
SortedSeq(S) ==
    IF S = {} THEN <<>> ELSE <<Min(S)>> \o SortedSeq(S \ {Min(S)})

CollectionContent(name, rs, pages, body) ==
    <<"collection", Join(name), rs, SortedSeq(pages), body>>

CollErrorNotice(msg) == <<"Error creating collection: ", msg>>
CollCreatedNotice(name) == <<"Collection \"" \o Join(name) \o "\" created!", "">>
CollMissingNotice == <<"Please provide a name and at least one verse range.", "">>

\* The locals of a createCollection that has returned.
NotIterating == [array |-> <<>>, aliased |-> TRUE]
NoLocals ==
    /\ crange' = 0
    /\ cbody' = <<>>
    /\ callPages' = {}
    /\ iterated' = NotIterating

FolderFailure == "EACCES: permission denied, mkdir"

\* CollThrow without the Notice.
CollThrow_Silent(msg) ==
    /\ cpc' = "open"
    /\ cnotices' = cnotices
    /\ NoLocals

\* The catch block of createCollection; the modal stays open.
CollThrow(msg) ==
    /\ cpc' = "open"
    /\ cnotices' = Append(cnotices, CollErrorNotice(msg))
    /\ NoLocals

CCalled(path) ==
    ccreateCalls' = ccreateCalls \cup {<<path, Exists(vault, path)>>}

Idle == cpc = "open"

formVars == <<collectionName, ranges, editsLeft>>
callVars == <<cpc, crange, cbody, callPages, cnotices, cfetchLog, ccreateCalls, iterated>>

\* One more edit of the form.
Edit ==
    /\ Idle
    /\ editsLeft > 0
    /\ editsLeft' = editsLeft - 1

\* The name field changes.
SetName(n) ==
    /\ Edit
    /\ collectionName' = n
    /\ UNCHANGED <<exColl, callVars, ranges>>

\* "+ add verse range".
AddRange ==
    /\ Edit
    /\ ranges' = Append(ranges, VerseRange(1, 1, 7, NoLabel))
    /\ UNCHANGED <<exColl, callVars, collectionName>>

\* The three text fields of a range: Number(v) is stored in the field.
EditSurah(i, v) ==
    /\ Edit
    /\ i \in 1..Len(ranges)
    /\ ranges' = [ranges EXCEPT ![i].surah = v]
    /\ UNCHANGED <<exColl, callVars, collectionName>>

EditStart(i, v) ==
    /\ Edit
    /\ i \in 1..Len(ranges)
    /\ ranges' = [ranges EXCEPT ![i].startVerse = v]
    /\ UNCHANGED <<exColl, callVars, collectionName>>

EditEnd(i, v) ==
    /\ Edit
    /\ i \in 1..Len(ranges)
    /\ ranges' = [ranges EXCEPT ![i].endVerse = v]
    /\ UNCHANGED <<exColl, callVars, collectionName>>

\* The trash button of a range: this.ranges.splice(i, 1).
RemoveRange(i) ==
    /\ Edit
    /\ i \in 1..Len(ranges)
    /\ ranges' = SubSeq(ranges, 1, i - 1) \o SubSeq(ranges, i + 1, Len(ranges))
    /\ UNCHANGED <<exColl, callVars, collectionName>>

\* A preset button: the name and a copy of the ranges of the preset.
ClickPreset(k) ==
    /\ Edit
    /\ collectionName' = PRESETS[k].name
    /\ ranges' = PRESETS[k].ranges
    /\ UNCHANGED <<exColl, callVars>>

\* getChapter(range.surah) is issued for the range at index k.
IssueGetChapter(k, log, array) ==
    /\ crange' = k
    /\ cpc' = "getChapter"
    /\ cfetchLog' = Append(log, <<"chapter", array[k].surah>>)

\* "Create collection": createCollection up to its first await.
ClickCreate ==
    /\ Idle
    /\ ccreateCalls' = {}
    /\ IF collectionName = <<>> \/ Len(ranges) = 0
       THEN /\ cnotices' = <<CollMissingNotice>>
            /\ cfetchLog' = <<>>
            /\ UNCHANGED <<cpc, crange, cbody, callPages, iterated>>
       ELSE /\ cnotices' = <<>>
            /\ cbody' = <<>>
            /\ callPages' = {}
            /\ iterated' = [array |-> ranges, aliased |-> TRUE]
            /\ IssueGetChapter(1, <<>>, ranges)
    /\ UNCHANGED <<exColl, formVars>>

\* getChapter resolves: the sub-heading and the link are appended and
\* getVersesByChapter is issued.
GetChapterResolve ==
    /\ cpc = "getChapter"
    /\ KnownChapter(iterated.array[crange].surah)
    /\ LET range == iterated.array[crange]
           chapter == getChapter(range.surah)
       IN /\ cbody' = Append(cbody, HeaderBlock(chapter, range))
          /\ cfetchLog' = Append(cfetchLog, <<"verses", range.surah>>)
    /\ cpc' = "getVerses"
    /\ UNCHANGED <<exColl, formVars, crange, callPages, cnotices, ccreateCalls, iterated>>

GetVersesResolve_Dedup ==
    /\ cpc = "getVerses"
    /\ LET range == iterated.array[crange]
           fs == filtered(range, getVersesByChapter(range.surah))
           new == SelectSeq(fs, LAMBDA v : VerseBlock(v) \notin Range(cbody))
       IN /\ cbody' = cbody \o [k \in 1..Len(new) |-> VerseBlock(new[k])]
          /\ callPages' = callPages \cup
                {fs[k].page_number : k \in {j \in 1..Len(fs) : fs[j].page_number # 0}}
    /\ IF crange < Len(iterated.array)
       THEN IssueGetChapter(crange + 1, cfetchLog, iterated.array)
       ELSE /\ cpc' = "ensureFolder"
            /\ UNCHANGED <<crange, cfetchLog>>
    /\ UNCHANGED <<exColl, formVars, cnotices, ccreateCalls, iterated>>

\* getVersesByChapter resolves: the verses are filtered and appended; then
\* the next range, or after the last one the document and its path.
GetVersesResolve ==
    /\ cpc = "getVerses"
    /\ LET range == iterated.array[crange]
           fs == filtered(range, getVersesByChapter(range.surah))
       IN /\ cbody' = cbody \o [k \in 1..Len(fs) |-> VerseBlock(fs[k])]
          /\ callPages' = callPages \cup
                {fs[k].page_number : k \in {j \in 1..Len(fs) : fs[j].page_number # 0}}
    /\ IF crange < Len(iterated.array)
       THEN IssueGetChapter(crange + 1, cfetchLog, iterated.array)
       ELSE /\ cpc' = "ensureFolder"
            /\ UNCHANGED <<crange, cfetchLog>>
    /\ UNCHANGED <<exColl, formVars, cnotices, ccreateCalls, iterated>>

\* A pending request of createCollection rejects.
CollFetchReject ==
    /\ cpc \in {"getChapter", "getVerses"}
    /\ CollThrow(ErrorMessage(cfetchLog[Len(cfetchLog)]))
    /\ UNCHANGED <<exColl, formVars, cfetchLog, ccreateCalls>>

\* "Ensure Collections folder exists". vault.createFolder is called only if
\* nothing is at the path; `ok` says whether the file system then lets it
\* create the folder, otherwise it rejects and leaves the vault as it was.
EnsureFolder(ok) ==
    /\ cpc = "ensureFolder"
    /\ IF Exists(vault, CollectionsFolder)
       THEN /\ cpc' = "create"
            /\ UNCHANGED <<vault, ccreateCalls, cnotices, crange, cbody, callPages, iterated>>
       ELSE /\ CCalled(CollectionsFolder)
            /\ IF ok
               THEN /\ vault' = AfterCreate(vault, CollectionsFolder, FolderContent)
                    /\ cpc' = "create"
                    /\ UNCHANGED <<cnotices, crange, cbody, callPages, iterated>>
               ELSE /\ vault' = vault
                    /\ CollThrow(FolderFailure)
    /\ UNCHANGED <<exVault, apiVars, seqVars, gpc, gopts, gchapters, gjuzs, gi, gpage,
                   notices, fetchLog, createCalls, failedAt, formVars, cfetchLog>>

\* vault.create(path, content), then the Notice and close().
CreateDocument ==
    /\ cpc = "create"
    /\ LET path == CollectionPath(collectionName)
           content == CollectionContent(collectionName, ranges, callPages, cbody)
       IN /\ CCalled(path)
          /\ vault' = AfterCreate(vault, path, content)
          /\ IF CreateThrows(vault, path)
             THEN CollThrow("File already exists.")
             ELSE /\ cpc' = "closed"
                  /\ cnotices' = Append(cnotices, CollCreatedNotice(collectionName))
                  /\ NoLocals
    /\ UNCHANGED <<exVault, apiVars, seqVars, gpc, gopts, gchapters, gjuzs, gi, gpage,
                   notices, fetchLog, createCalls, failedAt, formVars, cfetchLog>>

CollIdleInit ==
    /\ collectionName = <<>>
    /\ ranges = <<>>
    /\ cpc = "open"
    /\ crange = 0
    /\ cbody = <<>>
    /\ callPages = {}
    /\ cnotices = <<>>
    /\ cfetchLog = <<>>
    /\ ccreateCalls = {}
    /\ iterated = NotIterating

\* The name field and the preset buttons.
QuickForm ==
    \/ \E n \in NameInputs : SetName(n)
    \/ \E k \in 1..Len(PRESETS) : ClickPreset(k)

\* The range list edited by hand.
RangeForm ==
    \/ AddRange
    \/ \E i \in 1..MaxEdits, v \in SurahInputs : EditSurah(i, v)
    \/ \E i \in 1..MaxEdits, v \in StartInputs : EditStart(i, v)
    \/ \E i \in 1..MaxEdits, v \in EndInputs : EditEnd(i, v)
    \/ \E i \in 1..MaxEdits : RemoveRange(i)

\* createCollection, from the click to its return.
CollCall ==
    \/ ClickCreate
    \/ GetChapterResolve
    \/ GetVersesResolve
    \/ CollFetchReject
    \/ \E ok \in BOOLEAN : EnsureFolder(ok)
    \/ CreateDocument

CollNext == QuickForm \/ RangeForm \/ CollCall

\* createCollection is suspended at an await: the modal stays open and its
\* controls keep their handlers.
Waiting == cpc \in {"getChapter", "getVerses", "ensureFolder", "create"}

EditWhileWaiting ==
    /\ Waiting
    /\ editsLeft > 0
    /\ editsLeft' = editsLeft - 1

\* A preset button while the call waits: this.ranges becomes a new array, the
\* loop keeps the one it started with.
PresetWhileWaiting(k) ==
    /\ EditWhileWaiting
    /\ collectionName' = PRESETS[k].name
    /\ ranges' = PRESETS[k].ranges
    /\ iterated' = [iterated EXCEPT !.aliased = FALSE]
    /\ UNCHANGED <<exColl, cpc, crange, cbody, callPages, cnotices, cfetchLog,
                   ccreateCalls>>

\* The end-verse field of a range while the call waits: the field of the range
\* object is assigned, and the loop sees it when the array is still this.ranges.
EditEndWhileWaiting(i, v) ==
    /\ EditWhileWaiting
    /\ i \in 1..Len(ranges)
    /\ ranges' = [ranges EXCEPT ![i].endVerse = v]
    /\ iterated' = IF iterated.aliased
                   THEN [iterated EXCEPT !.array = ranges']
                   ELSE iterated
    /\ UNCHANGED <<exColl, cpc, crange, cbody, callPages, cnotices, cfetchLog,
                   ccreateCalls, collectionName>>

FormWhileWaiting ==
    \/ \E k \in 1..Len(PRESETS) : PresetWhileWaiting(k)
    \/ \E i \in 1..MaxEdits, v \in EndInputs : EditEndWhileWaiting(i, v)

CollEditNext == QuickForm \/ CollCall \/ FormWhileWaiting

----------------------------------------------------------------------------
(* VaultGenerator.buildJuzPageMap, turn by turn of its outer loop *)

EmptyMap == [x \in {} |-> 0]

\* buildJuzPageMap(juzs) is called.
JuzCall(juzs) ==
    /\ jpc = "idle"
    /\ jpc' = "loop"
    /\ jjuzs' = juzs
    /\ jpage' = 1
    /\ pageToJuz' = EmptyMap
    /\ UNCHANGED <<exJuz>>

\* One turn of `for (let page = 1; page <= 604; page++)`: the inner loop
\* sets the first juz whose range holds the page, if there is one.
JuzPage ==
    /\ jpc = "loop"
    /\ jpage <= LastPage
    /\ pageToJuz' = IF JuzMapHas(jjuzs, jpage)
                    THEN (jpage :> JuzMapGet(jjuzs, jpage)) @@ pageToJuz
                    ELSE pageToJuz
    /\ jpage' = jpage + 1
    /\ UNCHANGED <<exJuz, jpc, jjuzs>>

\* `return pageToJuz`.
JuzReturn ==
    /\ jpc = "loop"
    /\ jpage > LastPage
    /\ jpc' = "returned"
    /\ UNCHANGED <<exJuz, jjuzs, jpage, pageToJuz>>

JuzIdleInit ==
    /\ jpc = "idle"
    /\ jjuzs = <<>>
    /\ jpage = 1
    /\ pageToJuz = EmptyMap

JuzNext ==
    \/ \E juzs \in JuzInputs : JuzCall(juzs)
    \/ JuzPage
    \/ JuzReturn

\* The answers of GET /juzs that do not hold the 30 juz numbers: none, the
\* first only, all but the last, all but the first.
ShortJuzInputs ==
    { <<>>, <<1>>, [k \in 1..(JuzCount - 1) |-> k], [k \in 1..(JuzCount - 1) |-> k + 1] }

ShortJuzNext ==
    \/ \E juzs \in ShortJuzInputs : JuzCall(juzs)
    \/ JuzPage
    \/ JuzReturn

----------------------------------------------------------------------------
(* MushafRenderer *)

\* The verses of GET /verses/by_page/<page>?words=1: a verse has its
\* chapter, its number and its words; a word has its line.
MaxVerses == 2
PageChapterIds == {1, 2, 3, 9}
VerseNumbers == {1, 2}
WordLines == { <<>>, <<1>>, <<2>>, <<1, 2>> }

Word(key, k, line) ==
    [text_uthmani |-> key \o "/" \o ToString(k), position |-> k,
     line_number |-> line]

VerseWithWords(chapter_id, verse_number, lines) ==
    LET key == ToString(chapter_id) \o ":" \o ToString(verse_number)
    IN [chapter_id |-> chapter_id, verse_number |-> verse_number,
        verse_key |-> key,
        words |-> [k \in 1..Len(lines) |-> Word(key, k, lines[k])]]

VerseChoices ==
    { VerseWithWords(c, n, ls) :
        c \in PageChapterIds, n \in VerseNumbers, ls \in WordLines }

VerseLists == UNION { [1..n -> VerseChoices] : n \in 0..MaxVerses }

\* The chapters GET /chapters answers with: those of the pages, all but
\* chapter 3, or those of the pages listed from the last to the first.
MushafChapter(id) ==
    [id |-> id, name_simple |-> "Surah " \o ToString(id),
     name_arabic |-> "surah " \o ToString(id)]
MushafChapterLists ==
    { <<MushafChapter(1), MushafChapter(2), MushafChapter(3), MushafChapter(9)>>,
      <<MushafChapter(1), MushafChapter(2), MushafChapter(9)>>,
      <<MushafChapter(9), MushafChapter(3), MushafChapter(2), MushafChapter(1)>> }

RECURSIVE AllWords(_)
\* The words of the verses in the order the two loops visit them.
AllWords(verses) ==
    IF verses = <<>> THEN <<>>
    ELSE AllWords(SubSeq(verses, 1, Len(verses) - 1)) \o verses[Len(verses)].words

\* `lineMap.get(word.line_number) ?? []`
Existing(map, word) ==
    IF word.line_number \in DOMAIN map THEN map[word.line_number] ELSE <<>>

\* groupWordsByLine with `lineMap.set(word.line_number, [word])`.
RECURSIVE GroupWords_Overwrite(_, _)
GroupWords_Overwrite(map, words) ==
    IF words = <<>> THEN map
    ELSE LET word == Head(words)
         IN GroupWords_Overwrite((word.line_number :> <<word>>) @@ map,
                                 Tail(words))
groupWordsByLine_Overwrite(verses) ==
    GroupWords_Overwrite(EmptyMap, AllWords(verses))

\* The two loops of groupWordsByLine over the words in input order:
\* `existing.push(word)`, `lineMap.set(word.line_number, existing)`.
RECURSIVE GroupWords(_, _)
GroupWords(map, words) ==
    IF words = <<>> THEN map
    ELSE LET word == Head(words)
         IN GroupWords((word.line_number :> Append(Existing(map, word), word)) @@ map,
                       Tail(words))

\* groupWordsByLine: each word is pushed to the list of its line.
groupWordsByLine(verses) ==
    GroupWords(EmptyMap, AllWords(verses))

\* `firstWord.line_number`
StartLine_LastWord(verse) == verse.words[Len(verse.words)].line_number
StartLine(verse) == verse.words[1].line_number

RECURSIVE buildSurahStartLines(_)
\* buildSurahStartLines: map.set(line, chapter) verse after verse, so a later
\* set at a line replaces an earlier one.
buildSurahStartLines(verses) ==
    IF verses = <<>> THEN EmptyMap
    ELSE LET map == buildSurahStartLines(SubSeq(verses, 1, Len(verses) - 1))
             verse == verses[Len(verses)]
         IN IF verse.verse_number = 1 /\ Len(verse.words) > 0
            THEN (StartLine(verse) :> verse.chapter_id) @@ map
            ELSE map

\* `map.set(ch.id, ch)` on a Map kept as the sequence of its values in
\* insertion order: a new key is added at the end, a key that is there
\* keeps its place and gets the new value.
MapSet(map, ch) ==
    IF ChapterMapHas(map, ch.id)
    THEN [k \in 1..Len(map) |-> IF map[k].id = ch.id THEN ch ELSE map[k]]
    ELSE Append(map, ch)

RECURSIVE CollectChapters(_, _, _)
\* The loop of getChaptersForIds over the chapter list.
CollectChapters(map, all, chapterIds) ==
    IF all = <<>> THEN map
    ELSE CollectChapters(IF Head(all).id \in chapterIds
                         THEN MapSet(map, Head(all)) ELSE map,
                         Tail(all), chapterIds)

\* getChaptersForIds without `chapterIds.includes(ch.id)`.
getChaptersForIds_All(chapterIds, all) ==
    CollectChapters(<<>>, all, {all[k].id : k \in 1..Len(all)})
\* getChaptersForIds: the chapters of the list whose id is among the ids, in
\* the order of the list.
getChaptersForIds(chapterIds, all) ==
    CollectChapters(<<>>, all, chapterIds)

\* The elements renderMushafPage and fetchAndRenderPage create.  `key` is
\* the chapter of a header and the line number of a line.
Element(cls, text, key, words) ==
    [cls |-> cls, text |-> text, key |-> key, words |-> words]
HeaderEl(chapter) == Element("mushaf-surah-header", chapter.name_arabic, chapter.id, <<>>)
BismillahEl == Element("mushaf-bismillah", "bismillah", 0, <<>>)
LineEl(lineNum, words) ==
    Element("mushaf-line", "", lineNum,
            [k \in 1..Len(words) |-> words[k].text_uthmani])
FooterEl(page, chapters) ==
    Element("mushaf-page-footer", ToString(page), page,
            [k \in 1..Len(chapters) |-> chapters[k].name_simple])
LoadingEl == Element("quran-loading", "Loading...", 0, <<>>)
ErrorEl(msg) == Element("quran-error", "Error: " \o msg, 0, <<>>)

\* `startChapterId !== 9 && startChapterId !== 1`
HasBismillah_Not9(startChapterId) == startChapterId # 9
HasBismillah(startChapterId) == startChapterId # 9 /\ startChapterId # 1

\* One turn of the loop of renderMushafPage: header and bismillah if a
\* chapter starts on the line and its metadata is there, then the line.
RenderLine(lineNum, lines, chapters, starts) ==
    (IF lineNum \in DOMAIN starts /\ ChapterMapHas(chapters, starts[lineNum])
     THEN <<HeaderEl(ChapterMapGet(chapters, starts[lineNum]))>>
            \o (IF HasBismillah(starts[lineNum]) THEN <<BismillahEl>> ELSE <<>>)
     ELSE <<>>)
    \o <<LineEl(lineNum, lines[lineNum])>>

RECURSIVE RenderLines(_, _, _, _)
RenderLines(lineNumbers, lines, chapters, starts) ==
    IF lineNumbers = <<>> THEN <<>>
    ELSE RenderLine(lineNumbers[1], lines, chapters, starts)
            \o RenderLines(Tail(lineNumbers), lines, chapters, starts)

\* renderMushafPage: the lines in ascending order, then the footer.
renderMushafPage(page, lines, chapters, starts) ==
    RenderLines(SortedSeq(DOMAIN lines), lines, chapters, starts)
        \o <<FooterEl(page, chapters)>>

\* fetchAndRenderPage up to the await of getVersesByPageWithWords.
MushafOpen ==
    /\ mpc = "idle"
    /\ mpc' = "verses"
    /\ container' = <<LoadingEl>>
    /\ UNCHANGED <<exMushaf, mverses, lineMap, mchapters, surahStartLines>>

\* The verses arrive: groupWordsByLine, then the await of getChaptersForIds.
MushafVersesResolve(verses) ==
    /\ mpc = "verses"
    /\ mpc' = "chapters"
    /\ mverses' = verses
    /\ lineMap' = groupWordsByLine(verses)
    /\ UNCHANGED <<exMushaf, mchapters, surahStartLines, container>>

\* The chapters arrive: buildSurahStartLines and renderMushafPage.
MushafChaptersResolve(all) ==
    /\ mpc = "chapters"
    /\ mpc' = "rendered"
    /\ LET chapterIds == {mverses[k].chapter_id : k \in 1..Len(mverses)}
           chapters == getChaptersForIds(chapterIds, all)
           starts == buildSurahStartLines(mverses)
       IN /\ mchapters' = chapters
          /\ surahStartLines' = starts
          /\ container' = renderMushafPage(1, lineMap, chapters, starts)
    /\ UNCHANGED <<exMushaf, mverses, lineMap>>

\* A request rejects: the catch block shows the message.
MushafReject ==
    /\ mpc \in {"verses", "chapters"}
    /\ mpc' = "error"
    /\ container' = <<ErrorEl(ErrorMessage(<<mpc>>))>>
    /\ UNCHANGED <<exMushaf, mverses, lineMap, mchapters, surahStartLines>>

MushafIdleInit ==
    /\ mpc = "idle"
    /\ mverses = <<>>
    /\ lineMap = EmptyMap
    /\ mchapters = <<>>
    /\ surahStartLines = EmptyMap
    /\ container = <<>>

MushafNext ==
    \/ MushafOpen
    \/ \E verses \in VerseLists : MushafVersesResolve(verses)
    \/ \E all \in MushafChapterLists : MushafChaptersResolve(all)
    \/ MushafReject

----------------------------------------------------------------------------
(* helpers.stripHtml on its own *)

\* A translation string as a sequence of tokens: a word, a space, an
\* opening tag, a closing tag.
MaxHtmlLen == 5
OpenTag == "<sup>"
CloseTag == "</sup>"
HtmlTokens == {"word", " ", OpenTag, CloseTag}
HtmlInputs == UNION { [1..n -> HtmlTokens] : n \in 0..MaxHtmlLen }

\* stripHtml(html) is called.
StripCall(html) ==
    /\ spc = "idle"
    /\ spc' = "called"
    /\ shtml' = html
    /\ UNCHANGED <<exStrip, sresult>>

\* stripHtml returns.
StripReturn ==
    /\ spc = "called"
    /\ spc' = "returned"
    /\ sresult' = stripHtml(shtml)
    /\ UNCHANGED <<exStrip, shtml>>

StripIdleInit ==
    /\ spc = "idle"
    /\ shtml = <<>>
    /\ sresult = <<>>

StripNext ==
    \/ \E html \in HtmlInputs : StripCall(html)
    \/ StripReturn

----------------------------------------------------------------------------
(* MushafRenderer: chaptersCache, getCachedChapters, clearChaptersCache *)

\* `let chaptersCache: Chapter[] | null`: null, or a list.
NullCache == [isNull |-> TRUE, list |-> <<>>]
Cached(list) == [isNull |-> FALSE, list |-> list]

\* The callers whose getCachedChapters may be in progress together (the
\* fetchAndRenderPage calls of the pages of one note), and the calls made.
Callers == {"k1", "k2"}
MaxCalls == 4

\* clearChaptersCache()
ClearChaptersCache ==
    /\ kcalls < MaxCalls
    /\ kcalls' = kcalls + 1
    /\ chaptersCache' = NullCache
    /\ cacheFetches' = 0
    /\ UNCHANGED <<exCache, kpc, kresult, klang>>

\* getCachedChapters(language) up to its await or its return: a null memo
\* sends getChapters, a filled one is returned.
CachedCall(k, language) ==
    /\ kpc[k] \in {"idle", "returned", "threw"}
    /\ kcalls < MaxCalls
    /\ kcalls' = kcalls + 1
    /\ klang' = [klang EXCEPT ![k] = language]
    /\ IF chaptersCache.isNull
       THEN /\ kpc' = [kpc EXCEPT ![k] = "fetching"]
            /\ kresult' = [kresult EXCEPT ![k] = NullCache]
       ELSE /\ kpc' = [kpc EXCEPT ![k] = "returned"]
            /\ kresult' = [kresult EXCEPT ![k] = chaptersCache]
    /\ UNCHANGED <<exCache, chaptersCache, cacheFetches>>

\* The languages of the setting, and the list as GET /chapters answers it
\* for a language: each chapter with its translated_name in that language.
Languages == {"en", "fr"}
Localized(list, language) ==
    [i \in 1..Len(list) |->
        [id |-> list[i].id, name_simple |-> list[i].name_simple,
         name_arabic |-> list[i].name_arabic,
         translated_name |-> [language_name |-> language]]]

\* getChapters(language) resolves: the list is assigned to the memo and
\* returned.
CachedResolve(k, list) ==
    /\ kpc[k] = "fetching"
    /\ chaptersCache' = Cached(Localized(list, klang[k]))
    /\ cacheFetches' = cacheFetches + 1
    /\ kpc' = [kpc EXCEPT ![k] = "returned"]
    /\ kresult' = [kresult EXCEPT ![k] = chaptersCache']
    /\ UNCHANGED <<exCache, kcalls, klang>>

\* getChapters rejects: getCachedChapters throws, the memo is not assigned.
CachedReject(k) ==
    /\ kpc[k] = "fetching"
    /\ kpc' = [kpc EXCEPT ![k] = "threw"]
    /\ UNCHANGED <<exCache, chaptersCache, kresult, cacheFetches, kcalls, klang>>

CacheIdleInit ==
    /\ chaptersCache = NullCache
    /\ kpc = [k \in Callers |-> "idle"]
    /\ kresult = [k \in Callers |-> NullCache]
    /\ cacheFetches = 0
    /\ kcalls = 0
    /\ klang = [k \in Callers |-> "en"]

CacheNext ==
    \/ ClearChaptersCache
    \/ \E k \in Callers, language \in Languages : CachedCall(k, language)
    \/ \E k \in Callers, list \in MushafChapterLists : CachedResolve(k, list)
    \/ \E k \in Callers : CachedReject(k)

----------------------------------------------------------------------------
(* MushafView.loadPage, with the fetchAndRenderPage it awaits *)

\* The loadPage calls that may be in progress together, the calls made in
\* all, and the pages asked for.
Loads == {"l1", "l2"}
MaxLoads == 3
ViewPages == {1, 2}

\* Stand-in data: page p holds the first two verses of chapter p, on two
\* lines.
ViewVerses(page) ==
    <<VerseWithWords(page, 1, <<1, 2>>), VerseWithWords(page, 2, <<2>>)>>
ViewChapters == <<MushafChapter(1), MushafChapter(2)>>

Starts_(log) == SelectSeq(log, LAMBDA e : e[1] = "start")

\* The request a call waits for.
Pending(l) ==
    IF lpc[l] = "verses" THEN <<"verses", lpage[l]>> ELSE <<"chapters">>

\* loadPage(page) up to the first await of fetchAndRenderPage: the page
\* number is stored and shown, the wrapper emptied and "Loading..." added.
LoadPage(l, page) ==
    /\ lpc[l] \in {"idle", "rendered", "error"}
    /\ Len(Starts_(vlog)) < MaxLoads
    /\ currentPage' = page
    /\ pageInput' = page
    /\ wrapper' = <<LoadingEl>>
    /\ lpc' = [lpc EXCEPT ![l] = "verses"]
    /\ lpage' = [lpage EXCEPT ![l] = page]
    /\ ltrace' = [ltrace EXCEPT ![l] = <<>>]
    /\ vlog' = Append(vlog, <<"start", l>>)
    /\ UNCHANGED <<exView, chaptersCache, cacheFetches>>

\* The verses arrive: groupWordsByLine, then getChaptersForIds awaits
\* getCachedChapters, which sends getChapters if the memo is null.
LoadVersesResolve(l) ==
    /\ lpc[l] = "verses"
    /\ lpc' = [lpc EXCEPT ![l] =
                  IF chaptersCache.isNull THEN "chaptersFetch" ELSE "chaptersMemo"]
    /\ ltrace' = [ltrace EXCEPT ![l] = Append(@, "groupWordsByLine")]
    /\ vlog' = Append(vlog, <<"verses", l>>)
    /\ UNCHANGED <<exView, chaptersCache, cacheFetches, currentPage, pageInput,
                   wrapper, lpage>>

\* What fetchAndRenderPage leaves in the wrapper for a page and a chapter list.
RenderedPage(page, all) ==
    LET verses == ViewVerses(page)
        chapterIds == {verses[k].chapter_id : k \in 1..Len(verses)}
    IN renderMushafPage(page, groupWordsByLine(verses),
                        getChaptersForIds(chapterIds, all),
                        buildSurahStartLines(verses))

\* LoadChaptersResolve that renders only if its page is still the current
\* one, and leaves the wrapper alone otherwise.
LoadChaptersResolve_IfCurrent(l) ==
    /\ lpc[l] \in {"chaptersFetch", "chaptersMemo"}
    /\ LET all == IF lpc[l] = "chaptersFetch" THEN ViewChapters
                  ELSE chaptersCache.list
       IN /\ wrapper' = IF lpage[l] = currentPage
                        THEN RenderedPage(lpage[l], all) ELSE wrapper
          /\ chaptersCache' = IF lpc[l] = "chaptersFetch" THEN Cached(all)
                              ELSE chaptersCache
    /\ cacheFetches' = IF lpc[l] = "chaptersFetch" THEN cacheFetches + 1
                       ELSE cacheFetches
    /\ lpc' = [lpc EXCEPT ![l] = "rendered"]
    /\ ltrace' = [ltrace EXCEPT ![l] =
                    @ \o <<"buildSurahStartLines", "renderMushafPage">>]
    /\ vlog' = Append(vlog, <<"end", l>>)
    /\ UNCHANGED <<exView, currentPage, pageInput, lpage>>

\* The chapters are there (fetched, and then stored in the memo, or read
\* from it): buildSurahStartLines, renderMushafPage; loadPage returns.
LoadChaptersResolve(l) ==
    /\ lpc[l] \in {"chaptersFetch", "chaptersMemo"}
    /\ LET all == IF lpc[l] = "chaptersFetch" THEN ViewChapters
                  ELSE chaptersCache.list
       IN /\ wrapper' = RenderedPage(lpage[l], all)
          /\ chaptersCache' = IF lpc[l] = "chaptersFetch" THEN Cached(all)
                              ELSE chaptersCache
    /\ cacheFetches' = IF lpc[l] = "chaptersFetch" THEN cacheFetches + 1
                       ELSE cacheFetches
    /\ lpc' = [lpc EXCEPT ![l] = "rendered"]
    /\ ltrace' = [ltrace EXCEPT ![l] =
                    @ \o <<"buildSurahStartLines", "renderMushafPage">>]
    /\ vlog' = Append(vlog, <<"end", l>>)
    /\ UNCHANGED <<exView, currentPage, pageInput, lpage>>

\* LoadReject without `container.empty()` in the catch block.
LoadReject_NoEmpty(l) ==
    /\ lpc[l] \in {"verses", "chaptersFetch"}
    /\ wrapper' = Append(wrapper, ErrorEl(ErrorMessage(Pending(l))))
    /\ lpc' = [lpc EXCEPT ![l] = "error"]
    /\ vlog' = Append(vlog, <<"end", l>>)
    /\ UNCHANGED <<exView, chaptersCache, cacheFetches, currentPage, pageInput,
                   lpage, ltrace>>

\* A request of the call rejects: the catch block empties the wrapper and
\* shows the message; loadPage returns.
LoadReject(l) ==
    /\ lpc[l] \in {"verses", "chaptersFetch"}
    /\ wrapper' = <<ErrorEl(ErrorMessage(Pending(l)))>>
    /\ lpc' = [lpc EXCEPT ![l] = "error"]
    /\ vlog' = Append(vlog, <<"end", l>>)
    /\ UNCHANGED <<exView, chaptersCache, cacheFetches, currentPage, pageInput,
                   lpage, ltrace>>

\* The view as onOpen leaves it before its loadPage(this.currentPage).
ViewIdleInit ==
    /\ currentPage = 1
    /\ pageInput = 1
    /\ wrapper = <<>>
    /\ lpc = [l \in Loads |-> "idle"]
    /\ lpage = [l \in Loads |-> 1]
    /\ ltrace = [l \in Loads |-> <<>>]
    /\ vlog = <<>>

ViewNext ==
    \/ \E l \in Loads, page \in ViewPages : LoadPage(l, page)
    \/ \E l \in Loads : LoadVersesResolve(l)
    \/ \E l \in Loads : LoadChaptersResolve(l)
    \/ \E l \in Loads : LoadReject(l)

----------------------------------------------------------------------------
(* QuranReaderView.loadChapter *)

\* The loadChapter calls that may be in progress together, the calls made in
\* all, and the chapters asked for.
ReaderCalls == {"c1", "c2"}
MaxReads == 3
ReaderChapters == {1, 108}
Requests == {"chapter", "verses"}

NoRequests == [q \in Requests |-> "none"]

\* renderVerse: number and translation of one verse.
VerseEl(verse) ==
    Element("verse", ToString(verse.verse_number), verse.verse_number,
            <<stripHtml(verse.translations[1])>>)

\* renderChapter: nothing without chapterInfo; else the header, the
\* bismillah unless this.currentChapter is 9 or 1, and the verses.
renderChapter(current, info, verses) ==
    IF info = <<>> THEN <<>>
    ELSE <<Element("chapter-header", info[1].name_simple, info[1].id, <<>>)>>
         \o (IF current # 9 /\ current # 1
             THEN <<Element("bismillah", "bismillah", 0, <<>>)>> ELSE <<>>)
         \o <<Element("verses-container", "", 0,
                      [k \in 1..Len(verses) |-> VerseEl(verses[k])])>>

\* Promise.all settles with a rejection at the first rejection.
\* A Promise.any in its place: fulfilled by the first request that resolves.
AllResolved_Any(req) == \E q \in Requests : req[q] = "resolved"
\* Promise.all is fulfilled once every request has resolved.
AllResolved(req) == \A q \in Requests : req[q] = "resolved"

\* loadChapter(chapterId) up to its await: "Loading...", currentChapter is
\* set and both requests are sent.
LoadChapter(c, chapterId) ==
    /\ rpc[c] \in {"idle", "rendered", "error"}
    /\ \A q \in Requests : rreq[c][q] # "pending"
    /\ rcount < MaxReads
    /\ rcount' = rcount + 1
    /\ rcontent' = <<LoadingEl>>
    /\ readerChapter' = chapterId
    /\ rpc' = [rpc EXCEPT ![c] = "waiting"]
    /\ rid' = [rid EXCEPT ![c] = chapterId]
    /\ rreq' = [rreq EXCEPT ![c] = [q \in Requests |-> "pending"]]
    /\ UNCHANGED <<exReader, chapterInfo, rverses>>

\* RequestResolve storing the answer of each request as it arrives, and
\* rendering once both are there.
RequestResolve_Separately(c, q) ==
    /\ rreq[c][q] = "pending"
    /\ rreq' = [rreq EXCEPT ![c][q] = "resolved"]
    /\ IF rpc[c] = "waiting"
       THEN /\ chapterInfo' = IF q = "chapter" THEN <<getChapter(rid[c])>>
                              ELSE chapterInfo
            /\ rverses' = IF q = "verses" THEN getVersesByChapter(rid[c])
                          ELSE rverses
            /\ IF AllResolved(rreq'[c])
               THEN /\ rcontent' = renderChapter(readerChapter, chapterInfo', rverses')
                    /\ rpc' = [rpc EXCEPT ![c] = "rendered"]
               ELSE UNCHANGED <<rcontent, rpc>>
       ELSE UNCHANGED <<chapterInfo, rverses, rcontent, rpc>>
    /\ UNCHANGED <<exReader, readerChapter, rid, rcount>>

\* One of the two requests resolves; if Promise.all is fulfilled by it and
\* the call still waits, chapterInfo and verses are stored and the chapter
\* is rendered.
RequestResolve(c, q) ==
    /\ rreq[c][q] = "pending"
    /\ rreq' = [rreq EXCEPT ![c][q] = "resolved"]
    /\ IF rpc[c] = "waiting" /\ AllResolved(rreq'[c])
       THEN /\ chapterInfo' = <<getChapter(rid[c])>>
            /\ rverses' = getVersesByChapter(rid[c])
            /\ rcontent' = renderChapter(readerChapter, chapterInfo', rverses')
            /\ rpc' = [rpc EXCEPT ![c] = "rendered"]
       ELSE UNCHANGED <<chapterInfo, rverses, rcontent, rpc>>
    /\ UNCHANGED <<exReader, readerChapter, rid, rcount>>

\* One of the two requests rejects; if the call still waits, Promise.all
\* rejects and the catch block shows the message.
RequestReject(c, q) ==
    /\ rreq[c][q] = "pending"
    /\ rreq' = [rreq EXCEPT ![c][q] = "rejected"]
    /\ IF rpc[c] = "waiting"
       THEN /\ rcontent' = <<ErrorEl(ErrorMessage(<<q>>))>>
            /\ rpc' = [rpc EXCEPT ![c] = "error"]
       ELSE UNCHANGED <<rcontent, rpc>>
    /\ UNCHANGED <<exReader, readerChapter, chapterInfo, rverses, rid, rcount>>

\* The view as onOpen leaves it before its loadChapter(this.currentChapter).
ReaderIdleInit ==
    /\ readerChapter = 1
    /\ chapterInfo = <<>>
    /\ rverses = <<>>
    /\ rcontent = <<>>
    /\ rpc = [c \in ReaderCalls |-> "idle"]
    /\ rid = [c \in ReaderCalls |-> 1]
    /\ rreq = [c \in ReaderCalls |-> NoRequests]
    /\ rcount = 0

ReaderNext ==
    \/ \E c \in ReaderCalls, chapterId \in ReaderChapters : LoadChapter(c, chapterId)
    \/ \E c \in ReaderCalls, q \in Requests : RequestResolve(c, q)
    \/ \E c \in ReaderCalls, q \in Requests : RequestReject(c, q)

----------------------------------------------------------------------------
(* quranApi: fetchJson and the operations built on it *)

Operations ==
    {"getChapters", "getChapter", "getVersesByChapter", "getVersesByPage",
     "getVersesByPageWithWords", "getJuzs", "search"}
MaxSent == 2

\* The top-level key an operation reads from the body; search returns the
\* body itself, whose declared shape has the key "search".
TopKey(op) ==
    CASE op = "getChapters" -> "chapters"
      [] op = "getChapter" -> "chapter"
      [] op = "getJuzs" -> "juzs"
      [] op = "search" -> "search"
      [] OTHER -> "verses"
Keys == {TopKey(op) : op \in Operations}

\* JavaScript values: undefined, null, an Error, the payload found under a
\* key, or an object with some keys.
Undefined == [type |-> "undefined", of |-> "", keys |-> {}]
Null == [type |-> "null", of |-> "", keys |-> {}]
Error(msg) == [type |-> "error", of |-> msg, keys |-> {}]
Payload(key) == [type |-> "payload", of |-> key, keys |-> {}]
Object(keys) == [type |-> "object", of |-> "", keys |-> keys]

\* `data.key`
Get(data, key) == IF key \in data.keys THEN Payload(key) ELSE Undefined

\* What requestUrl may be answered with: no connection, a status of 400 or
\* more, or a 2xx with a body that is not JSON, is null, or is an object
\* with no key or one key.
Response(outcome, body) == [outcome |-> outcome, body |-> body]
NotJson == Error("Unexpected token < in JSON")
Responses ==
    {Response("network", Null), Response("status", Null)}
    \cup {Response("ok", b) :
            b \in {NotJson, Null} \cup {Object({})} \cup {Object({k}) : k \in Keys}}

Resolved(value) == [state |-> "resolved", value |-> value]
Rejected(msg) == [state |-> "rejected", value |-> Error(msg)]
NotSettled == [state |-> "none", value |-> Undefined]

\* fetchJson: requestUrl rejects without a connection and for a status of
\* 400 or more; `response.json` throws if the body is not JSON; the parsed
\* body is returned as it is.
fetchJson(response) ==
    CASE response.outcome = "network" -> Rejected("net::ERR_FAILED")
      [] response.outcome = "status" -> Rejected("Request failed, status 500")
      [] response.body.type = "error" -> Rejected(response.body.of)
      [] OTHER -> Resolved(response.body)

\* The operations: `return data.<key>` (a TypeError if data is null); search
\* returns what fetchJson returned.
Operation(op, response) ==
    LET data == fetchJson(response)
    IN IF data.state = "rejected" \/ op = "search" THEN data
       ELSE IF data.value.type = "null"
            THEN Rejected("Cannot read properties of null")
            ELSE Resolved(Get(data.value, TopKey(op)))

\* A value of the shape the operation declares.
DeclaredShape(op, value) ==
    IF op = "search" THEN value.type = "object" /\ TopKey(op) \in value.keys
    ELSE value = Payload(TopKey(op))

ApiCall(op) ==
    /\ apc \in {"idle", "settled"}
    /\ asent < MaxSent
    /\ asent' = asent + 1
    /\ apc' = "pending"
    /\ aop' = op
    /\ aresult' = NotSettled
    /\ UNCHANGED <<exApi, aresponse>>

ApiSettle(response) ==
    /\ apc = "pending"
    /\ apc' = "settled"
    /\ aresponse' = response
    /\ aresult' = Operation(aop, response)
    /\ UNCHANGED <<exApi, aop, asent>>

ApiIdleInit ==
    /\ apc = "idle"
    /\ aop = "getChapters"
    /\ aresponse = Response("ok", Null)
    /\ aresult = NotSettled
    /\ asent = 0

ApiNext ==
    \/ \E op \in Operations : ApiCall(op)
    \/ \E response \in Responses : ApiSettle(response)

----------------------------------------------------------------------------
(* main.ts: the quran-mushaf code block processor *)

\* JavaScript numbers, in tenths so that 2.5 is one of them; NaN; null.
\* A string is kept as its characters, decimal digits or -1 for any other.
Num(tenths) == [type |-> "number", tenths |-> tenths, digits |-> <<>>]
NaN == [type |-> "NaN", tenths |-> 0, digits |-> <<>>]
JsNull == [type |-> "null", tenths |-> 0, digits |-> <<>>]
Str(digits) == [type |-> "string", tenths |-> 0, digits |-> digits]

\* `!page`: null, 0 and NaN are falsy.
Falsy(page) == page.type \in {"null", "NaN"} \/ page = Num(0)

\* A line of the block: a label, a colon or none, and the text after it as
\* its decimal digits (<<>> if there is none, <<-1>> if it is not digits).
Line(label, colon, digits) == [label |-> label, colon |-> colon, digits |-> digits]
BlockLines ==
    { Line(l, TRUE, d) : l \in {"page", "Page"},
                         d \in {<<0>>, <<3>>, <<6, 0, 4>>, <<6, 0, 5>>} }
    \cup { Line("page", TRUE, <<>>), Line("page", TRUE, <<-1>>),
           Line("page", FALSE, <<3>>), Line("pages", TRUE, <<3>>) }
MaxLines == 2
Sources == UNION { [1..n -> BlockLines] : n \in 0..MaxLines }

\* Number("604")
RECURSIVE Decimal(_)
Decimal(digits) ==
    IF digits = <<>> THEN 0
    ELSE 10 * Decimal(SubSeq(digits, 1, Len(digits) - 1)) + digits[Len(digits)]

\* /^\s*page\s*:\s*(\d+)\s*$/i
Matches(line) ==
    /\ line.label \in {"page", "Page"}
    /\ line.colon
    /\ line.digits # <<>>
    /\ \A k \in 1..Len(line.digits) : line.digits[k] \in 0..9

\* parsePage: the number of the first line that matches, or null.
RECURSIVE parsePage(_)
parsePage(source) ==
    IF source = <<>> THEN JsNull
    ELSE IF Matches(Head(source)) THEN Num(10 * Decimal(Head(source).digits))
    ELSE parsePage(Tail(source))

\* The `page` of the front-matter: none, a YAML number or a YAML string.
Absent == [type |-> "undefined", tenths |-> 0, digits |-> <<>>]
FrontPages ==
    {Absent, Num(0), Num(50), Num(25), Num(6040), Num(6045), Num(6050), Num(-10),
     Str(<<7>>), Str(<<-1>>)}

\* `frontmatter?.["page"]` as a condition, and Number(frontmatter["page"]).
Truthy(value) == value.type = "string" \/ (value.type = "number" /\ value.tenths # 0)
Number(value) ==
    IF value.type = "number" THEN value
    ELSE IF \A k \in 1..Len(value.digits) : value.digits[k] \in 0..9
         THEN Num(10 * Decimal(value.digits)) ELSE NaN

\* The page the processor settles on.
BlockPage(source, front) ==
    LET page == parsePage(source)
    IN IF Falsy(page) /\ Truthy(front) THEN Number(front) ELSE page

\* `!page || page < 1 || page > 604`
Invalid(page) == Falsy(page) \/ page.tenths < 10 \/ page.tenths > 10 * LastPage

InvalidPageEl ==
    Element("quran-error",
            "Invalid or missing page number. Use page: 1-604 or add page to frontmatter.",
            0, <<>>)

\* The processor, up to the first await of the fetchAndRenderPage it starts
\* without awaiting it.
ProcessBlock(source, front) ==
    /\ bpc = "idle"
    /\ bpc' = "done"
    /\ bsource' = source
    /\ bfront' = front
    /\ LET page == BlockPage(source, front)
       IN IF Invalid(page)
          THEN /\ bwrapper' = <<InvalidPageEl>>
               /\ bfetch' = <<>>
          ELSE /\ bwrapper' = <<LoadingEl>>
               /\ bfetch' = <<page>>
    /\ UNCHANGED exBlock

BlockIdleInit ==
    /\ bpc = "idle"
    /\ bsource = <<>>
    /\ bfront = Absent
    /\ bwrapper = <<>>
    /\ bfetch = <<>>

BlockNext == \E source \in Sources, front \in FrontPages : ProcessBlock(source, front)

----------------------------------------------------------------------------
(* MushafView: the previous/next buttons and the page input *)

MaxNav == 4

\* What the user can leave in the number input: nothing, or a decimal number.
\* `Number(pageInput.value)`: the empty value is 0.
EmptyValue == Str(<<>>)
PageInputValues ==
    {EmptyValue, Num(0), Num(10), Num(25), Num(6030), Num(6040), Num(6050), Num(-10)}

\* `page >= 1 && page <= 604`
InPageRange(page) ==
    /\ page.type = "number"
    /\ page.tenths >= 10
    /\ page.tenths <= 10 * LastPage

\* loadPage up to its await: the wrapper exists once the view is open.
NavLoadPage(page) ==
    /\ navPage' = page
    /\ navInput' = page
    /\ navFetch' = Append(navFetch, page)

NavEvent ==
    /\ navLeft > 0
    /\ navLeft' = navLeft - 1

\* navigatePage(delta): the right-arrow button passes 1, the left-arrow -1.
navigatePage(delta) ==
    /\ NavEvent
    /\ LET next == Num(navPage.tenths + 10 * delta)
       IN IF InPageRange(next)
          THEN NavLoadPage(next)
          ELSE UNCHANGED <<navPage, navInput, navFetch>>
    /\ UNCHANGED exNav

\* The change listener of the page input (the Enter listener does the same).
PageInputChange(value) ==
    /\ NavEvent
    /\ LET page == Number(value)
       IN IF InPageRange(page)
          THEN NavLoadPage(page)
          ELSE /\ navInput' = value
               /\ UNCHANGED <<navPage, navFetch>>
    /\ UNCHANGED exNav

NavIdleInit ==
    /\ navPage = Num(10)
    /\ navInput = Num(10)
    /\ navFetch = <<Num(10)>>
    /\ navLeft = MaxNav

NavNext ==
    \/ \E delta \in {1, -1} : navigatePage(delta)
    \/ \E value \in PageInputValues : PageInputChange(value)

----------------------------------------------------------------------------
(* SearchView: the debounced input *)

MaxInputs == 3
MaxTime == 1000
DebounceMs == 400

\* The values of the search input at its input events.
Queries == {<<"n", "u">>, <<"n", "u", "h">>, <<"n", "o", "a", "h">>}

\* A timer set by setTimeout: its handle, the query its callback closes over
\* and the time it is due.  Handles count from 1, as the timers are set.
NoTimer == 0
Timer(id, query, due) == [id |-> id, query |-> query, due |-> due]

\* `if (this.debounceTimer) clearTimeout(this.debounceTimer)`: clearing the
\* handle of a timer that has fired removes nothing.
clearTimeout(handle) ==
    IF handle # NoTimer THEN {t \in timers : t.id # handle} ELSE timers

\* The input listener without the clearTimeout.
InputEvent_NoClear(query) ==
    /\ ~closed
    /\ Len(inputs) < MaxInputs
    /\ LET id == Len(inputs) + 1
       IN /\ timers' = timers \cup {Timer(id, query, now + DebounceMs)}
          /\ debounceTimer' = id
    /\ inputs' = Append(inputs, [value |-> query, at |-> now])
    /\ UNCHANGED <<exSearch, now, started, closed>>

\* The input listener: the elements of the view exist until it is closed.
InputEvent(query) ==
    /\ ~closed
    /\ Len(inputs) < MaxInputs
    /\ LET id == Len(inputs) + 1
       IN /\ timers' = clearTimeout(debounceTimer)
                          \cup {Timer(id, query, now + DebounceMs)}
          /\ debounceTimer' = id
    /\ inputs' = Append(inputs, [value |-> query, at |-> now])
    /\ UNCHANGED <<exSearch, now, started, closed>>

\* A timer that is due runs its callback: performSearch(query, results) up to
\* its await.  A query of fewer than 3 characters empties the results only.
TimerFires(t) ==
    /\ t \in timers
    /\ t.due <= now
    /\ timers' = timers \ {t}
    /\ started' = Append(started, [query |-> t.query,
                                   at |-> now,
                                   input |-> t.id,
                                   seen |-> Len(inputs),
                                   afterClose |-> closed,
                                   searched |-> Len(t.query) >= 3])
    /\ UNCHANGED <<exSearch, debounceTimer, now, inputs, closed>>

\* 100 ms pass.
Tick ==
    /\ now + 100 <= MaxTime
    /\ now' = now + 100
    /\ UNCHANGED <<exSearch, debounceTimer, timers, inputs, started, closed>>

onClose ==
    /\ ~closed
    /\ timers' = clearTimeout(debounceTimer)
    /\ closed' = TRUE
    /\ UNCHANGED <<exSearch, debounceTimer, now, inputs, started>>

SearchIdleInit ==
    /\ debounceTimer = NoTimer
    /\ timers = {}
    /\ now = 0
    /\ inputs = <<>>
    /\ started = <<>>
    /\ closed = FALSE

SearchNext ==
    \/ \E query \in Queries : InputEvent(query)
    \/ \E t \in timers : TimerFires(t)
    \/ Tick
    \/ onClose

----------------------------------------------------------------------------
(* The specifications *)

\* The vaults the modal may find: nothing, the folder, or the folder with a
\* document at the path of the collection "a/b".
CollInitialVaults ==
    LET f == [p \in {CollectionsFolder} |-> FolderContent]
        d == [p \in {CollectionPath(<<"a", "/", "b">>)} |-> UserContent]
    IN { <<>>, f, f @@ d }

\* A vault with documents of the user at a page path, a chapter path and
\* the path of the first preset collection.
JointVault ==
    [p \in {PagePath(2), SurahPath(Chapter(2, "Al-Baqarah")),
            CollectionPath(PRESETS[1].name)} |-> UserContent]

\* The memo is null, or a Mushaf page shown earlier in the session filled it.
MemoInit ==
    /\ chaptersCache \in {NullCache, Cached(apiChapters)}
    /\ kpc = [k \in Callers |-> "idle"]
    /\ kresult = [k \in Callers |-> NullCache]
    /\ cacheFetches = 0
    /\ kcalls = 0
    /\ klang = [k \in Callers |-> "en"]

\* Two invocations of the command; the modal is not used.
GenInit ==
    /\ vault \in InitialVaults
    /\ ApiInit
    /\ settings \in SettingsSets
    /\ GenIdleInit
    /\ CollIdleInit
    /\ JuzIdleInit
    /\ MushafIdleInit
    /\ StripIdleInit
    /\ ViewIdleInit
    /\ ReaderIdleInit
    /\ ApiIdleInit
    /\ BlockIdleInit
    /\ NavIdleInit
    /\ SearchIdleInit
    /\ MemoInit
    /\ editsLeft = 0

\* The modal alone.
CollInit ==
    /\ vault \in CollInitialVaults
    /\ apiChapters = <<>>
    /\ apiJuzs = <<>>
    /\ settings = DEFAULT_SETTINGS
    /\ GenIdleInit
    /\ CollIdleInit
    /\ JuzIdleInit
    /\ MushafIdleInit
    /\ StripIdleInit
    /\ ViewIdleInit
    /\ ReaderIdleInit
    /\ ApiIdleInit
    /\ BlockIdleInit
    /\ NavIdleInit
    /\ SearchIdleInit
    /\ CacheIdleInit
    /\ editsLeft = MaxEdits

\* One invocation of the command while a collection is made from a preset
\* or from a typed name.
Init ==
    /\ vault = JointVault
    /\ ApiInit
    /\ settings = DEFAULT_SETTINGS
    /\ GenIdleInit
    /\ CollIdleInit
    /\ JuzIdleInit
    /\ MushafIdleInit
    /\ StripIdleInit
    /\ ViewIdleInit
    /\ ReaderIdleInit
    /\ ApiIdleInit
    /\ BlockIdleInit
    /\ NavIdleInit
    /\ SearchIdleInit
    /\ CacheIdleInit
    /\ editsLeft = MaxEdits - 2

Next == GenRun("r1") \/ QuickForm \/ CollCall

\* buildJuzPageMap and the Mushaf page alone.
PureInit ==
    /\ vault = <<>>
    /\ apiChapters = <<>>
    /\ apiJuzs = <<>>
    /\ settings = DEFAULT_SETTINGS
    /\ GenIdleInit
    /\ CollIdleInit
    /\ JuzIdleInit
    /\ MushafIdleInit
    /\ StripIdleInit
    /\ ViewIdleInit
    /\ ReaderIdleInit
    /\ ApiIdleInit
    /\ BlockIdleInit
    /\ NavIdleInit
    /\ SearchIdleInit
    /\ CacheIdleInit
    /\ editsLeft = 0

SpecGen == GenInit /\ [][GenNext]_vars
SpecColl == CollInit /\ [][CollNext]_vars
SpecCollEdit == CollInit /\ [][CollEditNext]_vars
Spec == Init /\ [][Next]_vars
SpecJuz == PureInit /\ [][JuzNext]_vars
SpecMushaf == PureInit /\ [][MushafNext]_vars
SpecStrip == PureInit /\ [][StripNext]_vars
SpecCache == PureInit /\ [][CacheNext]_vars
SpecView == PureInit /\ [][ViewNext]_vars
SpecReader == PureInit /\ [][ReaderNext]_vars
SpecApi == PureInit /\ [][ApiNext]_vars
SpecShortJuz == PureInit /\ [][ShortJuzNext]_vars
SpecBlock == PureInit /\ [][BlockNext]_vars
SpecNav == PureInit /\ [][NavNext]_vars
SpecSearch == PureInit /\ [][SearchNext]_vars

(***************************************************************************)
(* Properties of generateFullVault                                         *)

\* The run met a rejected fetch.
FetchFailed(r) == failedAt[r] # NoFail /\ failedAt[r][1][1] = "fetch"
FailedRequest(r) == failedAt[r][1][2]

\* The pages whose verses the run asked for, in order.
PageFetches(r) == SelectSeq(fetchLog[r], LAMBDA q : q[1] = "page")
FetchedPages(r) == {q[2] : q \in Range(PageFetches(r))}
MissingPages(v) == {p \in 1..GenPages : ~Exists(v, PagePath(p))}

SurahPaths == {SurahPath(apiChapters[k]) : k \in 1..Len(apiChapters)}
PagePaths == {PagePath(p) : p \in 1..GenPages}
FolderPaths == {FolderPath(k) : k \in 1..Len(folders)}
DocumentPaths == SurahPaths \cup PagePaths \cup {IndexPath}
AllDocuments(v) == \A p \in DocumentPaths : Exists(v, p)

Succeeded(r) == SuccessNotice \in Range(notices[r])
FailureNotices(r) == SelectSeq(notices[r], LAMBDA n : n[1] = FailureNotice("")[1])

\* C1: when generateFullVault has run to its end without a failure and is
\* run again, the second run calls neither createFolder nor create, and the
\* vault stays the one the first run left.
C1_Idempotent ==
    sequential /\ failedAt["r1"] = NoFail
        => createCalls["r2"] = {} /\ vault = onceVault

C1_Witness ==
    /\ sequential
    /\ failedAt["r1"] = NoFail
    /\ created("r1") # {}
    /\ gpc["r2"] = "done"
    /\ Succeeded("r2")

\* C2: no step of generateFullVault or of createCollection removes a path
\* of the vault or changes what is stored at it.
C2_ExistingKept ==
    [][\A p \in DOMAIN vault : p \in DOMAIN vault' /\ vault'[p] = vault[p]]_vars

\* createCollection called vault.create at a path that holds a document of
\* the user, and the generator has added documents.
C2_Witness ==
    /\ \E c \in ccreateCalls : c[2]
    /\ created("r1") # {}
    /\ \A p \in DOMAIN JointVault : vault[p] = UserContent

\* C3: no run calls vault.create or createFolder at a path that exists.
C3_NoCreateAtExisting ==
    \A r \in Runs : \A c \in createCalls[r] : ~c[2]

\* What holds of a run once one of its fetches has rejected.
C4_Aborted(r) ==
    /\ gpc[r] = "done"
    /\ fetchLog[r][Len(fetchLog[r])] = FailedRequest(r)
    /\ FailureNotices(r) = <<FailureNotice(ErrorMessage(FailedRequest(r)))>>
    /\ created(r) \subseteq DOMAIN vault

\* C4: a rejected fetch ends the run: the rejected request is the last one
\* the run issues, the run calls create no more, exactly one failure notice
\* is shown and it carries the message of the rejection, and the step of
\* the failure leaves the vault as it is, so what the run created remains.
C4_FetchFailureAborts ==
    [][\A r \in Runs :
          /\ FetchFailed(r)' => C4_Aborted(r)'
          /\ FetchFailed(r)' /\ ~FetchFailed(r) => vault' = vault
          /\ FetchFailed(r) =>
                /\ fetchLog'[r] = fetchLog[r]
                /\ createCalls'[r] = createCalls[r]
                /\ notices'[r] = notices[r]
                /\ failedAt'[r] = failedAt[r]]_vars

\* A run failed at the fetch of a page after it had created documents, and
\* the other run went on.
C4_Witness ==
    \E r \in Runs :
        /\ FetchFailed(r)
        /\ FailedRequest(r)[1] = "page"
        /\ \E p \in PagePaths : p \in created(r)
        /\ \E o \in Runs \ {r} : gpc[o] = "done" /\ Succeeded(o)

\* C5: after a run that a rejected fetch ended, a run in which no fetch
\* rejects asks for the verses of exactly the pages that had no document,
\* once each, creates exactly the folders and documents that were missing,
\* keeps the others, and ends with every document present.
C5_Resumable ==
    sequential /\ FetchFailed("r1") /\ gpc["r2"] = "done" /\ ~FetchFailed("r2")
        => /\ FetchedPages("r2") = MissingPages(onceVault)
           /\ Len(PageFetches("r2")) = Cardinality(MissingPages(onceVault))
           /\ \A c \in createCalls["r2"] : ~c[2]
           /\ created("r2") = (FolderPaths \cup DocumentPaths) \ DOMAIN onceVault
           /\ \A p \in DOMAIN onceVault : vault[p] = onceVault[p]
           /\ AllDocuments(vault)
           /\ Succeeded("r2")

\* The first run stopped at a page after creating an earlier one; the
\* second run finished.
C5_Witness ==
    /\ sequential
    /\ FetchFailed("r1")
    /\ FailedRequest("r1")[1] = "page"
    /\ \E p \in PagePaths : p \in created("r1")
    /\ gpc["r2"] = "done"
    /\ ~FetchFailed("r2")
    /\ FetchedPages("r2") # {}
    /\ FetchedPages("r2") # 1..GenPages

\* The documents a fetch feeds: the getChapters of generateSurahNotes the
\* chapter documents, the getChapters and getJuzs of generatePageNotes the
\* page documents, and getVersesByPage the document of its page.
BuiltFrom(r) ==
    LET request == FailedRequest(r)
    IN IF request[1] = "page" THEN {PagePath(request[2])}
       ELSE IF Len(fetchLog[r]) = 1 THEN SurahPaths
       ELSE PagePaths

\* C6: the success notice is shown only by a run in which no fetch and no
\* write failed, and then every chapter the API returned, every page and
\* the index have a document; a run with a rejected fetch shows no success
\* notice and has created no document that the rejected fetch feeds.
C6_SuccessMeansComplete ==
    \A r \in Runs :
        /\ Succeeded(r) => failedAt[r] = NoFail /\ gpc[r] = "done" /\ AllDocuments(vault)
        /\ FetchFailed(r) => ~Succeeded(r) /\ created(r) \cap BuiltFrom(r) = {}

\* A run that created documents shows the success notice while the other
\* run was ended by a rejected fetch.
C6_Witness ==
    \E r \in Runs :
        /\ Succeeded(r)
        /\ created(r) \cap PagePaths # {}
        /\ \E o \in Runs \ {r} : FetchFailed(o)

(***************************************************************************)
(* Properties of buildJuzPageMap                                           *)

\* C7: the map built from the 30 juz numbers has, for every page of
\* 1..604, a juz number of 1..30 (so the fallback of generatePageNotes is
\* not taken), the juz number does not decrease from a page to the next,
\* and every juz of 1..30 is the juz of some page.
C7_JuzPageMap ==
    jpc = "returned" =>
        /\ \A p \in 1..LastPage :
              /\ p \in DOMAIN pageToJuz
              /\ pageToJuz[p] \in 1..JuzCount
              /\ juzNumber(jjuzs, p) = pageToJuz[p]
              /\ p > 1 => pageToJuz[p - 1] <= pageToJuz[p]
        /\ \A j \in 1..JuzCount : \E p \in 1..LastPage : pageToJuz[p] = j

\* The map was built from the juzs in reverse order.
C7_Witness ==
    /\ jpc = "returned"
    /\ jjuzs[1] = JuzCount
    /\ pageToJuz[1] = 1
    /\ pageToJuz[LastPage] = JuzCount

(***************************************************************************)
(* Properties of the Mushaf page                                           *)

\* The verses that start a chapter: verse_number 1 and at least one word.
Starts(verses) ==
    {k \in 1..Len(verses) : verses[k].verse_number = 1 /\ Len(verses[k].words) > 0}
FirstLine(verse) == verse.words[1].line_number

\* No later chapter start of the list has its first word on the same line.
Kept(verses, k) ==
    \A j \in Starts(verses) : j > k => FirstLine(verses[j]) # FirstLine(verses[k])

\* The list has no other start of the chapter.
OnlyStart(verses, k) ==
    \A j \in Starts(verses) : verses[j].chapter_id = verses[k].chapter_id => j = k

MarkerLines(chapter_id) ==
    {l \in DOMAIN surahStartLines : surahStartLines[l] = chapter_id}

\* C8 as stated: every chapter start of the list has the marker of its
\* chapter at the line of its first word, and at no other line.
C8_EveryStartMarked ==
    mpc = "rendered" =>
        \A k \in Starts(mverses) :
            MarkerLines(mverses[k].chapter_id) = {FirstLine(mverses[k])}

\* C8, amended: the markers are at lines of first words of chapter starts;
\* a chapter start has the marker of its chapter at the line of its first
\* word unless a later start of the list has its first word on that line,
\* and its chapter has no marker at another line if it starts once in the
\* list.
C8_StartMarkedUnlessReplaced ==
    mpc = "rendered" =>
        /\ \A l \in DOMAIN surahStartLines :
              \E k \in Starts(mverses) :
                  /\ FirstLine(mverses[k]) = l
                  /\ mverses[k].chapter_id = surahStartLines[l]
        /\ \A k \in Starts(mverses) :
              Kept(mverses, k) =>
                  /\ FirstLine(mverses[k]) \in DOMAIN surahStartLines
                  /\ surahStartLines[FirstLine(mverses[k])] = mverses[k].chapter_id
                  /\ OnlyStart(mverses, k) =>
                        MarkerLines(mverses[k].chapter_id) = {FirstLine(mverses[k])}

\* Two chapters start on the page, on two lines, the first with words on
\* both lines; both have their marker.
C8_Witness ==
    /\ mpc = "rendered"
    /\ Len(mverses) = 2
    /\ Starts(mverses) = {1, 2}
    /\ mverses[1].chapter_id # mverses[2].chapter_id
    /\ Len(mverses[1].words) = 2
    /\ FirstLine(mverses[1]) = 1
    /\ FirstLine(mverses[2]) = 2
    /\ MarkerLines(mverses[1].chapter_id) = {1}
    /\ MarkerLines(mverses[2].chapter_id) = {2}

IsHeader(i) == i \in 1..Len(container) /\ container[i].cls = "mushaf-surah-header"
IsBismillah(i) == i \in 1..Len(container) /\ container[i].cls = "mushaf-bismillah"
IsLine(i) == i \in 1..Len(container) /\ container[i].cls = "mushaf-line"

\* The banners that directly follow a header of the chapter.
BannersOf(chapter_id) ==
    {i \in 1..Len(container) :
        IsBismillah(i) /\ IsHeader(i - 1) /\ container[i - 1].key = chapter_id}

\* The banner of the chapter start k: one, right after the header of its
\* chapter and right before the line of its first word.
OneBanner(k) ==
    /\ Cardinality(BannersOf(mverses[k].chapter_id)) = 1
    /\ \A i \in BannersOf(mverses[k].chapter_id) :
          IsLine(i + 1) /\ container[i + 1].key = FirstLine(mverses[k])

NoBannerFor1And9 ==
    \A i \in 1..Len(container) :
        IsBismillah(i) => IsHeader(i - 1) /\ container[i - 1].key \notin {1, 9}

\* C9 as stated: no banner for chapter 1 or 9, and one banner, placed
\* between header and first line, for every other chapter that starts on
\* the page.
C9_BannerForEveryStart ==
    mpc = "rendered" =>
        /\ NoBannerFor1And9
        /\ \A k \in Starts(mverses) :
              mverses[k].chapter_id \notin {1, 9} => OneBanner(k)

\* C9, amended: a banner only follows a header of a chapter other than 1
\* and 9; every header of such a chapter is followed by the banner and then
\* by the line that has the marker of the chapter; and a chapter other than
\* 1 and 9 that starts once in the list, whose marker no later start
\* replaced and whose metadata is in the chapter map, has one banner,
\* between its header and the line of its first word.
C9_BannerAfterEveryHeader ==
    mpc = "rendered" =>
        /\ NoBannerFor1And9
        /\ \A i \in 1..Len(container) :
              IsHeader(i) =>
                  LET l == IF container[i].key \in {1, 9} THEN i + 1 ELSE i + 2
                  IN /\ container[i].key \notin {1, 9} => IsBismillah(i + 1)
                     /\ IsLine(l)
                     /\ container[l].key \in MarkerLines(container[i].key)
        /\ \A k \in Starts(mverses) :
              /\ mverses[k].chapter_id \notin {1, 9}
              /\ ChapterMapHas(mchapters, mverses[k].chapter_id)
              /\ Kept(mverses, k)
              /\ OnlyStart(mverses, k)
              => OneBanner(k)

\* Chapters 9 and 2 start on the page, on two lines: two headers and the
\* one banner of chapter 2.
C9_Witness ==
    /\ mpc = "rendered"
    /\ Len(mverses) = 2
    /\ Starts(mverses) = {1, 2}
    /\ mverses[1].chapter_id = 9
    /\ mverses[2].chapter_id = 2
    /\ FirstLine(mverses[1]) = 1
    /\ FirstLine(mverses[2]) = 2
    /\ Cardinality({i \in 1..Len(container) : IsHeader(i)}) = 2
    /\ {i \in 1..Len(container) : IsBismillah(i)} = BannersOf(2)
    /\ OneBanner(2)

(***************************************************************************)
(* Properties of createCollection                                          *)

\* The keys of the fetched verses of the chapter whose verse_number lies in
\* the interval [startVerse, endVerse], in the order of the fetched list.
IntervalKeys(range) ==
    LET fetched == getVersesByChapter(range.surah)
        inside == SelectSeq(fetched, LAMBDA v :
                      range.startVerse <= v.verse_number
                          /\ v.verse_number <= range.endVerse)
    IN [i \in 1..Len(inside) |->
            ToString(inside[i].chapter_id) \o ":" \o ToString(inside[i].verse_number)]

RECURSIVE ExpectedKeys(_)
ExpectedKeys(rs) ==
    IF rs = <<>> THEN <<>> ELSE IntervalKeys(rs[1]) \o ExpectedKeys(Tail(rs))

\* The keys of the verse blocks of a document, in order.
BlockKeys(content) ==
    LET blocks == SelectSeq(content[5], LAMBDA b : b[1] = "###")
    IN [i \in 1..Len(blocks) |-> blocks[i][2]]

\* C10: the document createCollection wrote has, range after range, one
\* verse block for each verse of the chapter whose verse_number is in the
\* inclusive interval [startVerse, endVerse], and no other verse block.
C10_InclusiveInterval ==
    cpc = "closed" =>
        BlockKeys(vault[CollectionPath(collectionName)]) = ExpectedKeys(ranges)

\* C28: the `ranges` recorded in the front-matter of a created collection are
\* the ranges whose verses are in its body, whatever the user did to the form
\* while createCollection was waiting for a fetch.
C28_RangesMatchBody ==
    cpc = "closed" =>
        LET content == vault[CollectionPath(collectionName)]
        IN BlockKeys(content) = ExpectedKeys(content[3])

\* A collection of the one range 2:255-255 was written: one block, "2:255".
C10_Witness ==
    /\ cpc = "closed"
    /\ Len(ranges) = 1
    /\ ranges[1].surah = 2
    /\ ranges[1].startVerse = 255
    /\ ranges[1].endVerse = 255
    /\ BlockKeys(vault[CollectionPath(collectionName)]) = <<"2:255">>

\* The shape of a document body: "##" for the sub-heading of a range, the
\* verse key for a verse block.
BodyShape(content) ==
    [i \in 1..Len(content[5]) |->
        IF content[5][i][1] = "##" THEN "##" ELSE content[5][i][2]]

RECURSIVE ExpectedShape(_)
ExpectedShape(rs) ==
    IF rs = <<>> THEN <<>>
    ELSE <<"##">> \o IntervalKeys(rs[1]) \o ExpectedShape(Tail(rs))

\* C11: the body of the written document is, range after range in the
\* order of the form, the sub-heading of the range followed by the verse
\* blocks of its interval in the order of the chapter; nothing is merged,
\* so a verse that lies in n ranges has n blocks.
C11_RangesConcatenated ==
    cpc = "closed" =>
        BodyShape(vault[CollectionPath(collectionName)]) = ExpectedShape(ranges)

\* A collection of two ranges of the same chapter that overlap was written:
\* the verses of the overlap have two blocks each.
C11_Witness ==
    /\ cpc = "closed"
    /\ Len(ranges) = 2
    /\ ranges[1].surah = ranges[2].surah
    /\ IntervalKeys(ranges[1]) # <<>>
    /\ LET shape == BodyShape(vault[CollectionPath(collectionName)])
       IN \A k \in Range(IntervalKeys(ranges[1])) :
              k \in Range(IntervalKeys(ranges[2]))
                  /\ Cardinality({i \in 1..Len(shape) : shape[i] = k}) = 2

(***************************************************************************)
(* Properties of stripHtml                                                 *)

IsTag(token) == token \in {OpenTag, CloseTag}

\* The text of a token string: what is left when the tags are taken out.
TextOnly(tokens) == SelectSeq(tokens, LAMBDA t : ~IsTag(t))

\* C12: what stripHtml returns holds no tag, and is the text between the
\* tags, spaces included, in order.
C12_TagsStripped ==
    spc = "returned" =>
        /\ \A i \in 1..Len(sresult) : ~IsTag(sresult[i])
        /\ sresult = TextOnly(shtml)

(***************************************************************************)
(* Properties of the chapter list memo                                     *)

\* C13: since the last clearChaptersCache, at most one getChapters fetch of
\* getCachedChapters has succeeded.
C13_FillOnce == cacheFetches <= 1

(***************************************************************************)
(* Properties of generatePageNotes and the memo                            *)

\* The section-list fetches of generatePageNotes: the getChapters requests
\* of the run after the one of generateSurahNotes.
PageNoteChapterFetches(r) ==
    Cardinality({i \in 2..Len(fetchLog[r]) : fetchLog[r][i][1] = "chapters"})

\* generatePageNotes has its section list.
PastChapters(r) ==
    gpc[r] \in {"juzsFetch", "pageLoop", "pageFetch", "generateIndex"} \/ Succeeded(r)

\* C14 as stated: page-note generation goes through the memo: it has a
\* section-list fetch pending only if the memo is null, and issues at most
\* one.
C14_ThroughMemo ==
    \A r \in Runs :
        /\ gpc[r] = "chaptersFetch" => chaptersCache.isNull
        /\ PageNoteChapterFetches(r) <= 1

\* C14, amended: generatePageNotes fetches the section list itself, once,
\* before the page loop, whether the memo is null or filled, and the loop
\* issues no section-list fetch; the memo stays as it was.
C14_OwnFetchOnce ==
    \A r \in Runs :
        /\ PageNoteChapterFetches(r) <= 1
        /\ PastChapters(r) => PageNoteChapterFetches(r) = 1
        /\ chaptersCache \in {NullCache, Cached(apiChapters)}
        /\ cacheFetches = 0

\* A run that found the memo filled created page documents and ended well
\* after one section-list fetch of its own in generatePageNotes.
C14_Witness ==
    \E r \in Runs :
        /\ ~chaptersCache.isNull
        /\ Succeeded(r)
        /\ created(r) \cap PagePaths # {}
        /\ Len(PageFetches(r)) > 1
        /\ PageNoteChapterFetches(r) = 1

----------------------------------------------------------------------------
(* fetchAndRenderPage after a failed fetch *)

\* The call l ends in its catch block in this step.
Fails(l) == lpc[l] # "error" /\ lpc'[l] = "error"

OnlyErrorBlock(l) == wrapper' = <<ErrorEl(ErrorMessage(Pending(l)))>>

\* C15, as stated: whenever a call settles after a failed fetch, the wrapper
\* holds exactly one error block with the message, and the call has invoked
\* neither groupWordsByLine nor renderMushafPage.
C15_ErrorBlockOnly ==
    [][\A l \in Loads : Fails(l) => OnlyErrorBlock(l) /\ ltrace'[l] = <<>>]_vars

\* C15, amended: whenever a call settles after a failed fetch, the wrapper
\* holds exactly one error block with the message, and the call has invoked
\* neither buildSurahStartLines nor renderMushafPage; it has invoked
\* groupWordsByLine exactly when the fetch that failed was the one of the
\* chapters, which is sent after the words were grouped.
C15_ErrorBlockNoRender ==
    [][\A l \in Loads :
          Fails(l) =>
             /\ OnlyErrorBlock(l)
             /\ ltrace'[l] = IF lpc[l] = "chaptersFetch"
                             THEN <<"groupWordsByLine">> ELSE <<>>]_vars

\* A call has just failed on the chapters, after another call had rendered
\* its page into the same wrapper.
C15_Witness ==
    \E l, m \in Loads :
        /\ lpc[l] = "error" /\ lpc[m] = "rendered"
        /\ vlog[Len(vlog) - 1] = <<"end", m>>
        /\ vlog[Len(vlog)] = <<"end", l>>
        /\ ltrace[l] = <<"groupWordsByLine">>
        /\ wrapper = <<ErrorEl("net::ERR_FAILED /chapters")>>

----------------------------------------------------------------------------
(* Overlapping page loads of MushafView *)

\* The place of the last occurrence of an event in the log, 0 if none.
LastAt(e) ==
    LET at == {i \in 1..Len(vlog) : vlog[i] = e}
    IN IF at = {} THEN 0 ELSE CHOOSE i \in at : \A j \in at : j <= i

\* loadPage call b started while call a waited for its verses, no call
\* started since, the fetches of both resolved, and a's after b's.
Superseded(a, b) ==
    /\ a # b
    /\ lpage[a] # lpage[b]
    /\ lpc[a] = "rendered" /\ lpc[b] = "rendered"
    /\ LastAt(<<"start", a>>) < LastAt(<<"start", b>>)
    /\ LastAt(<<"start", b>>) < LastAt(<<"verses", a>>)
    /\ LastAt(<<"end", b>>) < LastAt(<<"end", a>>)
    /\ \A l \in Loads : LastAt(<<"start", l>>) <= LastAt(<<"start", b>>)

\* C17: if loadPage(p) is started, loadPage(q) with another q is started
\* before the first fetch of the earlier call resolves, and the fetches for p
\* resolve after those for q, then once both have settled the wrapper shows
\* page p while currentPage and the page input are q.
C17_StaleWrite ==
    \A a, b \in Loads :
        Superseded(a, b) =>
            /\ wrapper = RenderedPage(lpage[a], ViewChapters)
            /\ wrapper # RenderedPage(lpage[b], ViewChapters)
            /\ currentPage = lpage[b]
            /\ pageInput = lpage[b]

\* Two overlapping loads of pages 1 and 2 have settled in that order.
C17_Witness ==
    /\ Superseded("l1", "l2")
    /\ lpage["l1"] = 1
    /\ currentPage = 2
    /\ wrapper[Len(wrapper)] = FooterEl(1, getChaptersForIds({1}, ViewChapters))

----------------------------------------------------------------------------
(* createCollection after a failed fetch or a failed createFolder *)

\* This step ends the createCollection in its catch block because a fetch
\* rejected or the Collections folder could not be created.
CollFails ==
    /\ cpc \in {"getChapter", "getVerses", "ensureFolder"}
    /\ cpc' = "open"

CollFailureMessage ==
    IF cpc = "ensureFolder" THEN FolderFailure
    ELSE ErrorMessage(cfetchLog[Len(cfetchLog)])

\* vault.create was not called, the one Notice of the call is the error, and
\* the call is over without a further request.
NoCreateOneNotice ==
    /\ \A c \in ccreateCalls' : c[1] = CollectionsFolder
    /\ cnotices' = <<CollErrorNotice(CollFailureMessage)>>
    /\ cfetchLog' = cfetchLog
    /\ cbody' = <<>>

\* C16, as stated: if a fetch fails for any range or the Collections folder
\* cannot be created, vault.create is never called in that createCollection,
\* no document exists at the target path afterwards, one error notice
\* reports the failure and nothing is retried.
C16_AllOrNothing ==
    [][CollFails =>
          /\ NoCreateOneNotice
          /\ ~Exists(vault', CollectionPath(collectionName))]_vars

\* C16, amended: ... vault.create is never called in that createCollection,
\* the vault is left as it was (no document is created or changed at the
\* target path; one that was there before is still there), one error notice
\* reports the failure and nothing is retried.
C16_NothingWritten ==
    [][CollFails => NoCreateOneNotice /\ vault' = vault]_vars

\* A createCollection of two ranges has failed on the verses of the second
\* range, with the first range already in the body.
C16_Witness ==
    /\ cpc = "open"
    /\ Len(ranges) >= 2
    /\ Len(cfetchLog) = 4
    /\ cnotices = <<CollErrorNotice(ErrorMessage(cfetchLog[4]))>>
    /\ ccreateCalls = {}

----------------------------------------------------------------------------
(* QuranReaderView.loadChapter: both fetches, or the error *)

ChapterShown(content) ==
    \E k \in 1..Len(content) :
        content[k].cls \in {"chapter-header", "verses-container"}

\* Call c renders, or ends in its catch block, in this step.
ReaderRenders(c) == rpc[c] = "waiting" /\ rpc'[c] = "rendered"
ReaderFails(c) == rpc[c] = "waiting" /\ rpc'[c] = "error"
\* A request of call c settles after the call has ended with the error.
ReaderLate(c) == rpc[c] = "error" /\ rpc'[c] = "error" /\ rreq'[c] # rreq[c]

\* C18: loadChapter renders chapter content only after both requests of that
\* call have resolved; if either rejects, no chapter content is rendered for
\* that call (neither then nor when the other request settles), chapterInfo
\* and verses keep their previous values, and the content area shows exactly
\* one error block.
C18_BothOrError ==
    [][\A c \in ReaderCalls :
          /\ ReaderRenders(c) =>
                /\ \A q \in Requests : rreq'[c][q] = "resolved"
                /\ ChapterShown(rcontent')
          /\ ReaderFails(c) =>
                /\ \E q \in Requests :
                      /\ rreq[c][q] = "pending" /\ rreq'[c][q] = "rejected"
                      /\ rcontent' = <<ErrorEl(ErrorMessage(<<q>>))>>
                /\ chapterInfo' = chapterInfo /\ rverses' = rverses
          /\ ReaderLate(c) =>
                /\ rcontent' = rcontent
                /\ chapterInfo' = chapterInfo /\ rverses' = rverses]_vars

\* A call for chapter 108 has ended with the error after its chapter request
\* had resolved, and the view still holds chapter 1 of an earlier call.
C18_Witness ==
    \E c \in ReaderCalls :
        /\ rpc[c] = "error" /\ rid[c] = 108
        /\ rreq[c] = [chapter |-> "resolved", verses |-> "rejected"]
        /\ chapterInfo = <<getChapter(1)>>
        /\ rverses = getVersesByChapter(1)
        /\ rcontent = <<ErrorEl("net::ERR_FAILED /verses")>>

----------------------------------------------------------------------------
(* The operations of quranApi resolve with their declared shape or reject *)

\* C19: every operation either resolves with a value of its declared shape
\* or rejects with an error: a network failure, a status outside 2xx and a
\* malformed body (such as a JSON body without the expected top-level key)
\* all lead to rejection, never to a resolved undefined or partial value.
C19_ShapeOrReject ==
    apc = "settled" =>
        \/ aresult.state = "rejected" /\ aresult.value.type = "error"
        \/ aresult.state = "resolved" /\ DeclaredShape(aop, aresult.value)

----------------------------------------------------------------------------
(* The rendered page against the words of the input *)

LineEls == SelectSeq(container, LAMBDA e : e.cls = "mushaf-line")

\* The texts of the words of a line, in input order.
TextsOfLine(l) ==
    LET ws == SelectSeq(AllWords(mverses), LAMBDA w : w.line_number = l)
    IN [k \in 1..Len(ws) |-> ws[k].text_uthmani]

RECURSIVE TotalWords(_)
TotalWords(els) ==
    IF els = <<>> THEN 0 ELSE Len(Head(els).words) + TotalWords(Tail(els))

\* C20: the rendered page is a re-ordering of the input without loss: every
\* word of every verse is emitted exactly once, in the line element of its
\* line_number; the line elements are in strictly ascending line order; and
\* within a line the words keep their input order.
C20_LosslessReordering ==
    mpc = "rendered" =>
        /\ \A i, j \in 1..Len(LineEls) : i < j => LineEls[i].key < LineEls[j].key
        /\ {LineEls[i].key : i \in 1..Len(LineEls)} =
              {w.line_number : w \in Range(AllWords(mverses))}
        /\ \A i \in 1..Len(LineEls) : LineEls[i].words = TextsOfLine(LineEls[i].key)
        /\ TotalWords(LineEls) = Len(AllWords(mverses))

\* A rendered page whose first verse lies on line 2 and whose second verse
\* runs from line 1 to line 2: the lines are met in the order 2, 1 and line
\* 2 holds words of both verses.
C20_Witness ==
    /\ mpc = "rendered"
    /\ Len(mverses) = 2
    /\ mverses[1].verse_key # mverses[2].verse_key
    /\ Len(mverses[1].words) = 1 /\ mverses[1].words[1].line_number = 2
    /\ Len(mverses[2].words) = 2
    /\ mverses[2].words[1].line_number = 1
    /\ mverses[2].words[2].line_number = 2
    /\ Len(LineEls) = 2
    /\ LineEls[2].words =
          <<mverses[1].words[1].text_uthmani, mverses[2].words[2].text_uthmani>>

----------------------------------------------------------------------------
(* The footer of the rendered page *)

Footer == container[Len(container)]

\* The distinct values of a sequence in the order in which they are first
\* seen.
RECURSIVE FirstSeen(_)
FirstSeen(seq) ==
    IF seq = <<>> THEN <<>>
    ELSE LET before == FirstSeen(SubSeq(seq, 1, Len(seq) - 1))
         IN IF seq[Len(seq)] \in Range(before) THEN before
            ELSE Append(before, seq[Len(seq)])

\* The chapter ids of the verses of the page, as first seen.
TouchedIds == FirstSeen([k \in 1..Len(mverses) |-> mverses[k].chapter_id])

NameOf(id) == MushafChapter(id).name_simple

----------------------------------------------------------------------------
(* The order in which the page documents and the index appear *)

ExistingPages(v) == {p \in 1..GenPages : Exists(v, PagePath(p))}

\* The existing page documents are those of the pages 1..k, for some k.
PrefixOfPages(v) == \E k \in 0..GenPages : ExistingPages(v) = 1..k

\* C22: from a vault without page documents, the page documents are created
\* in ascending page order, so that the existing ones are always those of
\* the pages 1..k; and the index is created only when the document of the
\* last page exists.
C22_AscendingPages ==
    [][/\ PrefixOfPages(vault) => PrefixOfPages(vault')
       /\ ~Exists(vault, IndexPath) /\ Exists(vault', IndexPath)
             => Exists(vault, PagePath(GenPages))]_vars

\* A run that found no page document has created the first two and is at
\* the third; another has created all of them, then the index.
C22_Witness ==
    /\ PagePath(1) \in created("r1") /\ PagePath(2) \in created("r1")
    /\ ExistingPages(vault) = 1..2
    /\ gpc["r1"] = "pageFetch"
    /\ ~Exists(vault, IndexPath)

----------------------------------------------------------------------------
(* The pages the code block processor fetches *)

IsPageNumber(page) ==
    /\ page.type = "number"
    /\ page.tenths % 10 = 0
    /\ page.tenths \div 10 \in 1..LastPage

\* The page the note asks for: that of the `page:` line of the block or,
\* when the block gives none, that of the front-matter.
AskedPage ==
    IF parsePage(bsource) # JsNull THEN parsePage(bsource)
    ELSE IF bfront.type = "undefined" THEN JsNull ELSE Number(bfront)

\* C23: the processor starts a fetch only for a page number in 1..604, taken
\* from the `page:` line of the block or, when the block gives none, from the
\* front-matter; for a missing or out-of-range page it shows exactly one
\* error block and starts no fetch.
C23_FetchOnlyValidPage ==
    bpc = "done" =>
        IF IsPageNumber(AskedPage)
        THEN bfetch = <<AskedPage>>
        ELSE bfetch = <<>> /\ bwrapper = <<InvalidPageEl>>

----------------------------------------------------------------------------
(* QuranReaderView under overlapping loadChapter calls *)

ReaderHeaders == SelectSeq(rcontent, LAMBDA e : e.cls = "chapter-header")
ReaderBanners == SelectSeq(rcontent, LAMBDA e : e.cls = "bismillah")

\* C24: the bismillah banner is never rendered together with the header of
\* chapter 1 or chapter 9, whatever the interleaving of overlapping
\* loadChapter calls.
C24_NoBannerWith1Or9 ==
    \A k \in 1..Len(ReaderHeaders) :
        ReaderHeaders[k].key \in {1, 9} => ReaderBanners = <<>>

\* The verse elements renderChapter makes of the verses of a chapter.
VerseElsOf(id) ==
    [k \in 1..Len(getVersesByChapter(id)) |-> VerseEl(getVersesByChapter(id)[k])]

\* C25: chapterInfo and verses always stem from the same loadChapter call:
\* no state, and no rendered content, combines the metadata of one chapter
\* with the verse list of another.
C25_SameCall ==
    /\ IF chapterInfo = <<>> THEN rverses = <<>>
       ELSE rverses = getVersesByChapter(chapterInfo[1].id)
    /\ \A k \in 1..Len(rcontent) :
          rcontent[k].cls = "verses-container" =>
              /\ Len(ReaderHeaders) = 1
              /\ rcontent[k].words = VerseElsOf(ReaderHeaders[1].key)

\* Two calls for different chapters overlapped and both rendered; the view
\* holds the chapter of the one that resolved last.
C25_Witness ==
    /\ rpc = [c \in ReaderCalls |-> "rendered"]
    /\ rid["c1"] = 1 /\ rid["c2"] = 108
    /\ readerChapter = 108
    /\ chapterInfo = <<getChapter(1)>>
    /\ Len(rverses) = VersesCount(1)
    /\ rcount = 2

----------------------------------------------------------------------------
(* The memo and the language *)

\* C26: getCachedChapters(language) returns the chapter list fetched for the
\* requested language: once a call for one language has filled the memo, a
\* later call for another language does not get the list of the first.
C26_ListOfLanguage ==
    \A k \in Callers :
        kpc[k] = "returned" =>
            \A i \in 1..Len(kresult[k].list) :
                kresult[k].list[i].translated_name.language_name = klang[k]

----------------------------------------------------------------------------
(* The juz number of a page document *)

\* `juzPageMap.get(page) ?? Math.ceil(page / 20)` on the map that was built.
JuzOfPage(page) ==
    IF page \in DOMAIN pageToJuz THEN pageToJuz[page]
    ELSE Ceil(page, FallbackPagesPerJuz)

\* C27: the juz number written into the front-matter of a page document is
\* an integer in 1..30 for every page 1..604, whatever juz list the API
\* returned, also an empty or incomplete one for which the fallback
\* Math.ceil(page / 20) is used.
C27_JuzInRange ==
    jpc = "returned" => \A page \in 1..LastPage : JuzOfPage(page) \in 1..JuzCount


(***************************************************************************)
(* Properties of the controls of MushafView                                *)

IsPage(page) ==
    /\ page.type = "number"
    /\ page.tenths % 10 = 0
    /\ page.tenths \div 10 \in 1..LastPage

\* C29: whatever the clicks and the changes of the page input, currentPage
\* is an integer in 1..604 and every page fetched is one.
C29_PageInRange ==
    /\ IsPage(navPage)
    /\ \A k \in 1..Len(navFetch) : IsPage(navFetch[k])

(***************************************************************************)
(* Properties of the debounce of SearchView                                *)

\* C30: at most one timer is pending; a performSearch starts for the latest
\* input value, 400 ms or more after that input and before onClose, so of
\* two inputs less than 400 ms apart the earlier one starts none.
C30_Debounce ==
    /\ Cardinality(timers) <= 1
    /\ \A k \in 1..Len(started) :
          /\ ~started[k].afterClose
          /\ started[k].input = started[k].seen
          /\ started[k].query = inputs[started[k].seen].value
          /\ started[k].at - inputs[started[k].input].at >= DebounceMs
    /\ \A i \in 1..(Len(inputs) - 1) :
          inputs[i + 1].at - inputs[i].at < DebounceMs
              => \A k \in 1..Len(started) : started[k].input # i

\* Two different values less than 400 ms apart, one search, for the second;
\* the view was closed with a third timer pending, which never fired.
C30_Witness ==
    /\ Len(inputs) = 3
    /\ inputs[1].value # inputs[2].value
    /\ inputs[2].at - inputs[1].at < DebounceMs
    /\ inputs[2].at > inputs[1].at
    /\ Len(started) = 1
    /\ started[1].query = inputs[2].value
    /\ started[1].searched
    /\ closed
    /\ now >= inputs[3].at + DebounceMs
    /\ timers = {}

====
